---- MODULE Spec2Model ----
(***************************************************************************)
(* Match validation engine of Maneuver (src/lib/matchValidationUtils.ts)    *)
(* and its data-transfer merge (src/lib/uploadHandlers), as operators       *)
(* applied by the actions of these specifications:                          *)
(*   SpecSeverity   createDiscrepancy on one scouted/official pair          *)
(*   Spec           validateMatch on one match                              *)
(*   SpecAggregate  buildAllianceData on the records of one match           *)
(*   SpecImport     import, conflict resolution and scouting submissions    *)
(*                  on the record store                                     *)
(*   SpecEvent      validateEventMatches over the matches of an event       *)
(*   SpecReplace    a replace of a stored record beside a reader            *)
(*   SpecApply      applyConflictResolutions on a list of conflicts         *)
(*   SpecEndgame    the endgame counts of the two aggregations              *)
(*   SpecDisplay    filterAndSortResults on a list of results               *)
(*   SpecCombined   saveCombinedData of the combined-data scanner           *)
(***************************************************************************)
EXTENDS Integers, Sequences, FiniteSets, TLC

VARIABLES
    phase,               \* "input": arguments chosen, "done": the function has returned
    config,              \* ValidationConfig handed to the function
    category,            \* createDiscrepancy: DataCategory argument
    scoutedValue,        \* createDiscrepancy: scoutedValue argument
    tbaValue,            \* createDiscrepancy: tbaValue argument
    discrepancy,         \* createDiscrepancy: Discrepancy | null, as a sequence of length <= 1
    scoutedRedEntries,   \* validateMatch: scouted records of the red alliance
    scoutedBlueEntries,  \* validateMatch: scouted records of the blue alliance
    tbaMatch,            \* validateMatch: official match payload
    result,              \* validateMatch: MatchValidationResult, as a sequence of length <= 1
    store,               \* db.scoutingData: the rows of the record store
    incoming,            \* the entries of the payload waiting to be imported
    conflictResult,      \* what detectConflicts returned to the last import
    showDialog,          \* "none", "batch" (BatchConflictDialog) or "conflict" (ConflictResolutionDialog)
    batchReviewEntries,  \* uploader state: entries of the batch-review bucket
    pendingConflicts,    \* uploader state: conflicts waiting behind the batch review
    currentConflicts,    \* useConflictResolution: the conflict queue
    currentConflictIndex,\* useConflictResolution: position in the queue
    conflictResolutions, \* useConflictResolution: Map conflictKey -> 'replace' | 'skip'
    resolutionHistory,   \* useConflictResolution: the undo stack
    pendingSubmission,   \* EndgamePage: submission waiting for the correction dialog
    submitsLeft,         \* scouting submissions still allowed in the run
    lastOp,              \* the operation that made the last change
    officialMatches,     \* what getCachedTBAEventMatches holds for the event
    tbaMatches,          \* validateEventMatches: the fetched official matches
    isValidating,        \* useMatchValidation state
    progress,            \* useMatchValidation state: ValidationProgress | null
    loopIndex,           \* validateEventMatches: i
    results,             \* validateEventMatches: results
    successCount,        \* validateEventMatches: successCount
    skippedCount,        \* validateEventMatches: skippedCount
    validationResults,   \* useMatchValidation state
    validationError,     \* useMatchValidation state: error
    visited,             \* the match numbers reported as currentMatch, in order
    toast,               \* the last toast of the validation hook
    storedResults,       \* the validation results kept by storeValidationResult
    returned,            \* what the last validateSingleMatch returned, with its argument
    replacePc,           \* where a replace stands between its awaits
    replaceJob,          \* the rows a replace deletes and the entry it saves
    observed,            \* what the last fetchScoutedMatchData read
    applied,             \* what applyConflictResolutions returned: { replaced, skipped }
    displayResults,      \* filterAndSortResults: results
    displayFilters,      \* filterAndSortResults: filters, as a sequence of length <= 1
    displayed,           \* what filterAndSortResults returned, as a sequence of length <= 1
    scoutsToImport,      \* combined payload: the names of scoutProfiles.scouts
    scoutsList,          \* localStorage scoutsList: the selectable scouts
    pendingImportData,   \* CombinedDataFountainScanner state, as a sequence of length <= 1
    combinedPc           \* where the combined import stands: "idle", "scanned", "asking", "done"

engineVars == <<phase, config, category, scoutedValue, tbaValue, discrepancy,
                scoutedRedEntries, scoutedBlueEntries, tbaMatch, result>>

importVars == <<store, incoming, conflictResult, showDialog, batchReviewEntries,
                pendingConflicts, currentConflicts, currentConflictIndex,
                conflictResolutions, resolutionHistory, pendingSubmission,
                submitsLeft, lastOp>>

eventVars == <<officialMatches, tbaMatches, isValidating, progress, loopIndex, results,
               successCount, skippedCount, validationResults, validationError, visited,
               toast, storedResults, returned>>

replaceVars == <<replacePc, replaceJob, observed>>

applyVars == <<applied>>

displayVars == <<displayResults, displayFilters, displayed>>

combinedVars == <<scoutsToImport, scoutsList, pendingImportData, combinedPc>>

vars == <<engineVars, importVars, eventVars, replaceVars, applyVars, displayVars, combinedVars>>

NoConflictResult ==
    [autoImport |-> << >>, autoReplace |-> << >>, batchReview |-> << >>, conflicts |-> << >>]

\* the merge side at rest with an empty store
ImportIdle ==
    /\ store = {}
    /\ incoming = << >>
    /\ conflictResult = NoConflictResult
    /\ showDialog = "none"
    /\ batchReviewEntries = << >>
    /\ pendingConflicts = << >>
    /\ currentConflicts = << >>
    /\ currentConflictIndex = 0
    /\ conflictResolutions = {}
    /\ resolutionHistory = << >>
    /\ pendingSubmission = << >>
    /\ submitsLeft = 0
    /\ lastOp = "none"

\* the event validation at rest with no official match
EventIdle ==
    /\ officialMatches = << >>
    /\ tbaMatches = << >>
    /\ isValidating = FALSE
    /\ progress = << >>
    /\ loopIndex = 0
    /\ results = << >>
    /\ successCount = 0
    /\ skippedCount = 0
    /\ validationResults = << >>
    /\ validationError = << >>
    /\ visited = << >>
    /\ toast = << >>
    /\ storedResults = {}
    /\ returned = << >>

\* no replace under way and nothing read
ReplaceIdle ==
    /\ replacePc = "idle"
    /\ replaceJob = << >>
    /\ observed = << >>

\* applyConflictResolutions has not returned
ApplyIdle ==
    /\ applied = << >>

\* the result list is not being displayed
DisplayIdle ==
    /\ displayResults = << >>
    /\ displayFilters = << >>
    /\ displayed = << >>

\* no combined payload has been scanned
CombinedIdle ==
    /\ scoutsToImport = {}
    /\ scoutsList = {}
    /\ pendingImportData = << >>
    /\ combinedPc = "idle"

-----------------------------------------------------------------------------
(* Bounds of the model *)

\* largest scouted / official count handed to createDiscrepancy
MaxCount == 6

\* largest number of scouted records per alliance handed to validateMatch
MaxEntries == 3

-----------------------------------------------------------------------------
(* Arithmetic helpers (Math.abs, Math.max, Math.round) *)

Abs(x) == IF x < 0 THEN 0 - x ELSE x

Max(a, b) == IF a >= b THEN a ELSE b

\* Math.round(n / d) for n >= 0, d > 0
RoundDiv(n, d) == (2 * n + d) \div (2 * d)

\* arr.includes(x)
Includes(s, x) == \E i \in 1..Len(s) : s[i] = x

-----------------------------------------------------------------------------
(* Types of matchValidationTypes, as used by matchValidationUtils.ts *)

DataCategories == {"auto-coral", "teleop-coral", "algae", "mobility", "endgame"}

SeverityOrdinal(s) ==
    CASE s = "none" -> 0
      [] s = "minor" -> 1
      [] s = "warning" -> 2
      [] s = "critical" -> 3

StatusOrdinal(s) ==
    CASE s = "passed" -> 0
      [] s = "flagged" -> 1
      [] s = "failed" -> 2

ConfidenceOrdinal(c) ==
    CASE c = "low" -> 0
      [] c = "medium" -> 1
      [] c = "high" -> 2

\* a percentage kept exact, as the fraction num / den
PercentGE(p, t) == p.num >= t * p.den

-----------------------------------------------------------------------------
(* calculateSeverity, createDiscrepancy *)

\* a classifier that consults the percentage thresholds before the absolute gate
calculateSeverity_percentFirst(difference, percentDiff, cfg, cat) ==
    LET thresholds == IF cat \in DOMAIN cfg.categoryThresholds
                      THEN cfg.categoryThresholds[cat]
                      ELSE cfg.thresholds
    IN  IF PercentGE(percentDiff, thresholds.critical) /\ difference > 0 THEN "critical"
        ELSE IF difference >= thresholds.criticalAbsolute THEN "critical"
        ELSE IF difference >= thresholds.warningAbsolute THEN "warning"
        ELSE IF difference >= thresholds.minorAbsolute THEN "minor"
        ELSE "none"

\* a classifier that tests the minor threshold before the warning threshold
calculateSeverity_minorFirst(difference, percentDiff, cfg, cat) ==
    LET thresholds == IF cat \in DOMAIN cfg.categoryThresholds
                      THEN cfg.categoryThresholds[cat]
                      ELSE cfg.thresholds
    IN  IF difference >= thresholds.criticalAbsolute THEN "critical"
        ELSE IF difference >= thresholds.minorAbsolute THEN "minor"
        ELSE IF difference >= thresholds.warningAbsolute THEN "warning"
        ELSE "none"

calculateSeverity(difference, percentDiff, cfg, cat) ==
    LET thresholds == IF cat \in DOMAIN cfg.categoryThresholds
                      THEN cfg.categoryThresholds[cat]
                      ELSE cfg.thresholds
    IN  IF difference >= thresholds.criticalAbsolute THEN "critical"
        ELSE IF difference >= thresholds.warningAbsolute THEN "warning"
        ELSE IF difference >= thresholds.minorAbsolute THEN "minor"
        ELSE IF difference < thresholds.warningAbsolute THEN "none"
        ELSE IF PercentGE(percentDiff, thresholds.critical) THEN "critical"
        ELSE IF PercentGE(percentDiff, thresholds.warning) THEN "warning"
        ELSE IF PercentGE(percentDiff, thresholds.minor) THEN "minor"
        ELSE "none"

\* percentDiff = max === 0 ? 0 : (difference / max) * 100
PercentDiff(scouted, tba) ==
    LET difference == Abs(scouted - tba)
        max == Max(scouted, tba)
    IN  IF max = 0 THEN [num |-> 0, den |-> 1]
        ELSE [num |-> difference * 100, den |-> max]

\* a discrepancy that is reported even when its severity is 'none'
createDiscrepancy_keepNone(cat, field, scouted, tba, cfg) ==
    LET difference == Abs(scouted - tba)
        percentDiff == PercentDiff(scouted, tba)
        severity == calculateSeverity(difference, percentDiff, cfg, cat)
    IN  << [category |-> cat,
            field |-> field,
            scoutedValue |-> scouted,
            tbaValue |-> tba,
            difference |-> difference,
            percentDiff10 |-> RoundDiv(percentDiff.num * 10, percentDiff.den),
            severity |-> severity] >>

\* Discrepancy | null: << >> is null
createDiscrepancy(cat, field, scouted, tba, cfg) ==
    LET difference == Abs(scouted - tba)
        percentDiff == PercentDiff(scouted, tba)
        severity == calculateSeverity(difference, percentDiff, cfg, cat)
    IN  IF severity = "none" THEN << >>
        ELSE << [category |-> cat,
                 field |-> field,
                 scoutedValue |-> scouted,
                 tbaValue |-> tba,
                 difference |-> difference,
                 percentDiff10 |-> RoundDiv(percentDiff.num * 10, percentDiff.den),
                 severity |-> severity] >>

\* the severity createDiscrepancy decided: null stands for 'none'
SeverityOf(d) == IF d = << >> THEN "none" ELSE d[1].severity

-----------------------------------------------------------------------------
(* aggregateScoutedAllianceData *)

\* entries.reduce((sum, e) => sum + f(e), 0), s being the sequence of the f(e)
RECURSIVE SumUpTo(_, _)
SumUpTo(s, n) == IF n = 0 THEN 0 ELSE s[n] + SumUpTo(s, n - 1)

Reduce(s) == SumUpTo(s, Len(s))

One(b) == IF b THEN 1 ELSE 0

aggregateScoutedAllianceData(scoutedEntries, alliance, matchNumber, eventName, expectedTeams) ==
    LET n == Len(scoutedEntries)
        teams == [i \in 1..n |-> scoutedEntries[i].selectTeam]
        scoutNames == [i \in 1..n |-> scoutedEntries[i].scoutName]
        missingTeams == SelectSeq(expectedTeams, LAMBDA t : ~Includes(teams, t))
        autoCoralL1 == Reduce([i \in 1..n |-> scoutedEntries[i].autoCoralPlaceL1Count])
        autoCoralL2 == Reduce([i \in 1..n |-> scoutedEntries[i].autoCoralPlaceL2Count])
        autoCoralL3 == Reduce([i \in 1..n |-> scoutedEntries[i].autoCoralPlaceL3Count])
        autoCoralL4 == Reduce([i \in 1..n |-> scoutedEntries[i].autoCoralPlaceL4Count])
        autoAlgaeNet == Reduce([i \in 1..n |-> scoutedEntries[i].autoAlgaePlaceNetShot])
        autoAlgaeProcessor == Reduce([i \in 1..n |-> scoutedEntries[i].autoAlgaePlaceProcessor])
        teleopCoralL1 == Reduce([i \in 1..n |-> scoutedEntries[i].teleopCoralPlaceL1Count])
        teleopCoralL2 == Reduce([i \in 1..n |-> scoutedEntries[i].teleopCoralPlaceL2Count])
        teleopCoralL3 == Reduce([i \in 1..n |-> scoutedEntries[i].teleopCoralPlaceL3Count])
        teleopCoralL4 == Reduce([i \in 1..n |-> scoutedEntries[i].teleopCoralPlaceL4Count])
        teleopAlgaeNet == Reduce([i \in 1..n |-> scoutedEntries[i].teleopAlgaePlaceNetShot])
        teleopAlgaeProcessor == Reduce([i \in 1..n |-> scoutedEntries[i].teleopAlgaePlaceProcessor])
    IN  [alliance |-> alliance,
         matchNumber |-> matchNumber,
         eventName |-> eventName,
         teams |-> teams,
         scoutNames |-> scoutNames,
         autoCoralL1 |-> autoCoralL1,
         autoCoralL2 |-> autoCoralL2,
         autoCoralL3 |-> autoCoralL3,
         autoCoralL4 |-> autoCoralL4,
         autoCoralTotal |-> autoCoralL1 + autoCoralL2 + autoCoralL3 + autoCoralL4,
         autoAlgaeNet |-> autoAlgaeNet,
         autoAlgaeProcessor |-> autoAlgaeProcessor,
         autoAlgaeTotal |-> autoAlgaeNet + autoAlgaeProcessor,
         autoMobility |-> Reduce([i \in 1..n |-> One(scoutedEntries[i].autoPassedStartLine)]),
         teleopCoralL1 |-> teleopCoralL1,
         teleopCoralL2 |-> teleopCoralL2,
         teleopCoralL3 |-> teleopCoralL3,
         teleopCoralL4 |-> teleopCoralL4,
         teleopCoralTotal |-> teleopCoralL1 + teleopCoralL2 + teleopCoralL3 + teleopCoralL4,
         teleopAlgaeNet |-> teleopAlgaeNet,
         teleopAlgaeProcessor |-> teleopAlgaeProcessor,
         teleopAlgaeTotal |-> teleopAlgaeNet + teleopAlgaeProcessor,
         deepClimbs |-> Reduce([i \in 1..n |->
             One(scoutedEntries[i].deepClimbAttempted /\ ~scoutedEntries[i].climbFailed)]),
         shallowClimbs |-> Reduce([i \in 1..n |->
             One(scoutedEntries[i].shallowClimbAttempted /\ ~scoutedEntries[i].climbFailed)]),
         parks |-> Reduce([i \in 1..n |-> One(scoutedEntries[i].parkAttempted)]),
         climbFails |-> Reduce([i \in 1..n |-> One(scoutedEntries[i].climbFailed)]),
         brokeDown |-> Reduce([i \in 1..n |-> One(scoutedEntries[i].brokeDown)]),
         playedDefense |-> Reduce([i \in 1..n |-> One(scoutedEntries[i].playedDefense)]),
         missingTeams |-> missingTeams,
         scoutedTeamsCount |-> n]

-----------------------------------------------------------------------------
(* extractTBAAllianceData *)

\* extractTeamNumber (lib/tbaUtils): "frc100" -> "100"; a team key is kept as
\* the pair of its prefix and its number
extractTeamNumber(teamKey) == teamKey.number

CountOf(s, v) == Cardinality({i \in 1..Len(s) : s[i] = v})

\* a minimal result that loses the raw final score
minimalTBAAllianceData_noScore(alliance, teams, totalPoints) ==
    [alliance |-> alliance, teams |-> teams,
     totalPoints |-> 0,
     autoPoints |-> 0, teleopPoints |-> 0, foulPoints |-> 0,
     autoCoralL1 |-> 0, autoCoralL2 |-> 0, autoCoralL3 |-> 0, autoCoralL4 |-> 0,
     autoCoralTotal |-> 0, autoCoralPoints |-> 0,
     teleopCoralL1 |-> 0, teleopCoralL2 |-> 0, teleopCoralL3 |-> 0,
     teleopCoralL4 |-> 0, teleopCoralTotal |-> 0, teleopCoralPoints |-> 0,
     algaeNet |-> 0, algaeProcessor |-> 0, algaeTotal |-> 0, algaePoints |-> 0,
     mobilityCount |-> 0, mobilityPoints |-> 0,
     deepClimbs |-> 0, shallowClimbs |-> 0, parks |-> 0, endgamePoints |-> 0,
     autoBonusAchieved |-> FALSE, coralBonusAchieved |-> FALSE,
     bargeBonusAchieved |-> FALSE,
     foulCount |-> 0, techFoulCount |-> 0]

\* the minimal data returned when the payload has no score breakdown
minimalTBAAllianceData(alliance, teams, totalPoints) ==
    [alliance |-> alliance, teams |-> teams,
     totalPoints |-> totalPoints,
     autoPoints |-> 0, teleopPoints |-> 0, foulPoints |-> 0,
     autoCoralL1 |-> 0, autoCoralL2 |-> 0, autoCoralL3 |-> 0, autoCoralL4 |-> 0,
     autoCoralTotal |-> 0, autoCoralPoints |-> 0,
     teleopCoralL1 |-> 0, teleopCoralL2 |-> 0, teleopCoralL3 |-> 0,
     teleopCoralL4 |-> 0, teleopCoralTotal |-> 0, teleopCoralPoints |-> 0,
     algaeNet |-> 0, algaeProcessor |-> 0, algaeTotal |-> 0, algaePoints |-> 0,
     mobilityCount |-> 0, mobilityPoints |-> 0,
     deepClimbs |-> 0, shallowClimbs |-> 0, parks |-> 0, endgamePoints |-> 0,
     autoBonusAchieved |-> FALSE, coralBonusAchieved |-> FALSE,
     bargeBonusAchieved |-> FALSE,
     foulCount |-> 0, techFoulCount |-> 0]

extractTBAAllianceData(match, alliance) ==
    LET allianceData == match.alliances[alliance]
        teams == [i \in 1..Len(allianceData.team_keys) |->
                    extractTeamNumber(allianceData.team_keys[i])]
    IN  IF match.score_breakdown = << >>
        THEN minimalTBAAllianceData(alliance, teams, allianceData.score)
        ELSE
        LET breakdown == match.score_breakdown[1][alliance]
            mobilityCount == One(breakdown.autoLineRobot1 = "Yes")
                             + One(breakdown.autoLineRobot2 = "Yes")
                             + One(breakdown.autoLineRobot3 = "Yes")
            endgameStates == <<breakdown.endGameRobot1, breakdown.endGameRobot2,
                               breakdown.endGameRobot3>>
        IN  [alliance |-> alliance, teams |-> teams,
             totalPoints |-> allianceData.score,
             autoPoints |-> breakdown.autoPoints,
             teleopPoints |-> breakdown.teleopPoints,
             foulPoints |-> breakdown.foulPoints,
             autoCoralL1 |-> breakdown.autoReef.trough,
             autoCoralL2 |-> breakdown.autoReef.tba_botRowCount,
             autoCoralL3 |-> breakdown.autoReef.tba_midRowCount,
             autoCoralL4 |-> breakdown.autoReef.tba_topRowCount,
             autoCoralTotal |-> breakdown.autoCoralCount,
             autoCoralPoints |-> breakdown.autoCoralPoints,
             teleopCoralL1 |-> breakdown.teleopReef.trough,
             teleopCoralL2 |-> breakdown.teleopReef.tba_botRowCount,
             teleopCoralL3 |-> breakdown.teleopReef.tba_midRowCount,
             teleopCoralL4 |-> breakdown.teleopReef.tba_topRowCount,
             teleopCoralTotal |-> breakdown.teleopCoralCount,
             teleopCoralPoints |-> breakdown.teleopCoralPoints,
             algaeNet |-> breakdown.netAlgaeCount,
             algaeProcessor |-> breakdown.wallAlgaeCount,
             algaeTotal |-> breakdown.netAlgaeCount + breakdown.wallAlgaeCount,
             algaePoints |-> breakdown.algaePoints,
             mobilityCount |-> mobilityCount,
             mobilityPoints |-> breakdown.autoMobilityPoints,
             deepClimbs |-> CountOf(endgameStates, "DeepCage"),
             shallowClimbs |-> CountOf(endgameStates, "ShallowCage"),
             parks |-> CountOf(endgameStates, "Parked"),
             endgamePoints |-> breakdown.endGameBargePoints,
             autoBonusAchieved |-> breakdown.autoBonusAchieved,
             coralBonusAchieved |-> breakdown.coralBonusAchieved,
             bargeBonusAchieved |-> breakdown.bargeBonusAchieved,
             foulCount |-> breakdown.foulCount,
             techFoulCount |-> breakdown.techFoulCount]

-----------------------------------------------------------------------------
(* compareAllianceData *)

\* discrepancies.filter(d => d.severity === sev).length
CountSeverity(discrepancies, sev) ==
    Cardinality({i \in 1..Len(discrepancies) : discrepancies[i].severity = sev})

\* the official teleop-only coral counts: final counts less the auto counts, never negative
tbaActualTeleop_unclamped(tbaData) ==
    LET L1 == tbaData.teleopCoralL1 - tbaData.autoCoralL1
        L2 == tbaData.teleopCoralL2 - tbaData.autoCoralL2
        L3 == tbaData.teleopCoralL3 - tbaData.autoCoralL3
        L4 == tbaData.teleopCoralL4 - tbaData.autoCoralL4
    IN  [L1 |-> L1, L2 |-> L2, L3 |-> L3, L4 |-> L4, Total |-> L1 + L2 + L3 + L4]

tbaActualTeleop(tbaData) ==
    LET L1 == Max(0, tbaData.teleopCoralL1 - tbaData.autoCoralL1)
        L2 == Max(0, tbaData.teleopCoralL2 - tbaData.autoCoralL2)
        L3 == Max(0, tbaData.teleopCoralL3 - tbaData.autoCoralL3)
        L4 == Max(0, tbaData.teleopCoralL4 - tbaData.autoCoralL4)
    IN  [L1 |-> L1, L2 |-> L2, L3 |-> L3, L4 |-> L4, Total |-> L1 + L2 + L3 + L4]

allianceStatus(criticalCount, warningCount, minorCount, cfg) ==
    IF criticalCount >= cfg.autoFlagThreshold THEN "failed"
    ELSE IF criticalCount > 0 THEN "flagged"
    ELSE IF warningCount > 2 THEN "flagged"
    ELSE IF warningCount > 0 \/ minorCount > 3 THEN "flagged"
    ELSE "passed"

\* an alliance confidence that looks at the discrepancies only
allianceConfidence_ignoreMissing(scoutedData, criticalCount, warningCount) ==
    IF criticalCount > 0 THEN "low"
    ELSE IF warningCount > 2 THEN "medium"
    ELSE "high"

allianceConfidence(scoutedData, criticalCount, warningCount) ==
    IF Len(scoutedData.missingTeams) > 0 THEN "low"
    ELSE IF criticalCount > 0 THEN "low"
    ELSE IF warningCount > 2 THEN "medium"
    ELSE "high"

\* the comparison with the endgame counts compared whatever checkEndgame says
compareAllianceData_endgameAlways(scoutedData, tbaData, cfg) ==
    LET autoCoral ==
            IF cfg.checkAutoScoring
            THEN createDiscrepancy("auto-coral", "Auto Coral L1", scoutedData.autoCoralL1, tbaData.autoCoralL1, cfg)
              \o createDiscrepancy("auto-coral", "Auto Coral L2", scoutedData.autoCoralL2, tbaData.autoCoralL2, cfg)
              \o createDiscrepancy("auto-coral", "Auto Coral L3", scoutedData.autoCoralL3, tbaData.autoCoralL3, cfg)
              \o createDiscrepancy("auto-coral", "Auto Coral L4", scoutedData.autoCoralL4, tbaData.autoCoralL4, cfg)
              \o createDiscrepancy("auto-coral", "Auto Coral Total", scoutedData.autoCoralTotal, tbaData.autoCoralTotal, cfg)
            ELSE << >>
        tbaTeleop == tbaActualTeleop(tbaData)
        teleopCoral ==
            IF cfg.checkTeleopScoring
            THEN createDiscrepancy("teleop-coral", "Teleop Coral L1", scoutedData.teleopCoralL1, tbaTeleop.L1, cfg)
              \o createDiscrepancy("teleop-coral", "Teleop Coral L2", scoutedData.teleopCoralL2, tbaTeleop.L2, cfg)
              \o createDiscrepancy("teleop-coral", "Teleop Coral L3", scoutedData.teleopCoralL3, tbaTeleop.L3, cfg)
              \o createDiscrepancy("teleop-coral", "Teleop Coral L4", scoutedData.teleopCoralL4, tbaTeleop.L4, cfg)
              \o createDiscrepancy("teleop-coral", "Teleop Coral Total", scoutedData.teleopCoralTotal, tbaTeleop.Total, cfg)
            ELSE << >>
        scoutedAlgaeNet == scoutedData.autoAlgaeNet + scoutedData.teleopAlgaeNet
        scoutedAlgaeProc == scoutedData.autoAlgaeProcessor + scoutedData.teleopAlgaeProcessor
        scoutedAlgaeTotal == scoutedAlgaeNet + scoutedAlgaeProc
        algae ==
               createDiscrepancy("algae", "Total Algae Net", scoutedAlgaeNet, tbaData.algaeNet, cfg)
            \o createDiscrepancy("algae", "Total Algae Processor", scoutedAlgaeProc, tbaData.algaeProcessor, cfg)
            \o createDiscrepancy("algae", "Total Algae", scoutedAlgaeTotal, tbaData.algaeTotal, cfg)
        mobility ==
            createDiscrepancy("mobility", "Mobility Count", scoutedData.autoMobility, tbaData.mobilityCount, cfg)
        endgame ==
            IF TRUE
            THEN createDiscrepancy("endgame", "Deep Climbs", scoutedData.deepClimbs, tbaData.deepClimbs, cfg)
              \o createDiscrepancy("endgame", "Shallow Climbs", scoutedData.shallowClimbs, tbaData.shallowClimbs, cfg)
              \o createDiscrepancy("endgame", "Parks", scoutedData.parks, tbaData.parks, cfg)
            ELSE << >>
        discrepancies == autoCoral \o teleopCoral \o algae \o mobility \o endgame
        scoutedAutoCoralPoints ==
            scoutedData.autoCoralL1 * 3 + scoutedData.autoCoralL2 * 4
            + scoutedData.autoCoralL3 * 6 + scoutedData.autoCoralL4 * 7
        scoutedAutoAlgaePoints ==
            scoutedData.autoAlgaeNet * 4 + scoutedData.autoAlgaeProcessor * 6
        scoutedMobilityPoints == scoutedData.autoMobility * 3
        scoutedTeleopCoralPoints ==
            scoutedData.teleopCoralL1 * 2 + scoutedData.teleopCoralL2 * 3
            + scoutedData.teleopCoralL3 * 4 + scoutedData.teleopCoralL4 * 5
        scoutedTeleopAlgaePoints ==
            scoutedData.teleopAlgaeNet * 4 + scoutedData.teleopAlgaeProcessor * 6
        scoutedEndgamePoints ==
            scoutedData.parks * 2 + scoutedData.shallowClimbs * 6 + scoutedData.deepClimbs * 12
        estimatedScoutedScore ==
            scoutedAutoCoralPoints + scoutedAutoAlgaePoints + scoutedMobilityPoints
            + scoutedTeleopCoralPoints + scoutedTeleopAlgaePoints + scoutedEndgamePoints
        tbaBreakdownScore ==
            tbaData.autoCoralPoints + tbaData.teleopCoralPoints + tbaData.algaePoints
            + tbaData.mobilityPoints + tbaData.endgamePoints
        scoreDifference == Abs(estimatedScoutedScore - tbaBreakdownScore)
        criticalCount == CountSeverity(discrepancies, "critical")
        warningCount == CountSeverity(discrepancies, "warning")
        minorCount == CountSeverity(discrepancies, "minor")
    IN  [alliance |-> scoutedData.alliance,
         status |-> allianceStatus(criticalCount, warningCount, minorCount, cfg),
         confidence |-> allianceConfidence(scoutedData, criticalCount, warningCount),
         discrepancies |-> discrepancies,
         totalScoutedPoints |-> estimatedScoutedScore,
         totalTBAPoints |-> tbaBreakdownScore,
         scoreDifference |-> scoreDifference,
         scorePercentDiff10 |-> IF tbaBreakdownScore = 0 THEN 0
                                ELSE RoundDiv(scoreDifference * 1000, tbaBreakdownScore),
         scoutedData |-> scoutedData,
         tbaData |-> tbaData]

compareAllianceData(scoutedData, tbaData, cfg) ==
    LET autoCoral ==
            IF cfg.checkAutoScoring
            THEN createDiscrepancy("auto-coral", "Auto Coral L1", scoutedData.autoCoralL1, tbaData.autoCoralL1, cfg)
              \o createDiscrepancy("auto-coral", "Auto Coral L2", scoutedData.autoCoralL2, tbaData.autoCoralL2, cfg)
              \o createDiscrepancy("auto-coral", "Auto Coral L3", scoutedData.autoCoralL3, tbaData.autoCoralL3, cfg)
              \o createDiscrepancy("auto-coral", "Auto Coral L4", scoutedData.autoCoralL4, tbaData.autoCoralL4, cfg)
              \o createDiscrepancy("auto-coral", "Auto Coral Total", scoutedData.autoCoralTotal, tbaData.autoCoralTotal, cfg)
            ELSE << >>
        tbaTeleop == tbaActualTeleop(tbaData)
        teleopCoral ==
            IF cfg.checkTeleopScoring
            THEN createDiscrepancy("teleop-coral", "Teleop Coral L1", scoutedData.teleopCoralL1, tbaTeleop.L1, cfg)
              \o createDiscrepancy("teleop-coral", "Teleop Coral L2", scoutedData.teleopCoralL2, tbaTeleop.L2, cfg)
              \o createDiscrepancy("teleop-coral", "Teleop Coral L3", scoutedData.teleopCoralL3, tbaTeleop.L3, cfg)
              \o createDiscrepancy("teleop-coral", "Teleop Coral L4", scoutedData.teleopCoralL4, tbaTeleop.L4, cfg)
              \o createDiscrepancy("teleop-coral", "Teleop Coral Total", scoutedData.teleopCoralTotal, tbaTeleop.Total, cfg)
            ELSE << >>
        scoutedAlgaeNet == scoutedData.autoAlgaeNet + scoutedData.teleopAlgaeNet
        scoutedAlgaeProc == scoutedData.autoAlgaeProcessor + scoutedData.teleopAlgaeProcessor
        scoutedAlgaeTotal == scoutedAlgaeNet + scoutedAlgaeProc
        algae ==
               createDiscrepancy("algae", "Total Algae Net", scoutedAlgaeNet, tbaData.algaeNet, cfg)
            \o createDiscrepancy("algae", "Total Algae Processor", scoutedAlgaeProc, tbaData.algaeProcessor, cfg)
            \o createDiscrepancy("algae", "Total Algae", scoutedAlgaeTotal, tbaData.algaeTotal, cfg)
        mobility ==
            createDiscrepancy("mobility", "Mobility Count", scoutedData.autoMobility, tbaData.mobilityCount, cfg)
        endgame ==
            IF cfg.checkEndgame
            THEN createDiscrepancy("endgame", "Deep Climbs", scoutedData.deepClimbs, tbaData.deepClimbs, cfg)
              \o createDiscrepancy("endgame", "Shallow Climbs", scoutedData.shallowClimbs, tbaData.shallowClimbs, cfg)
              \o createDiscrepancy("endgame", "Parks", scoutedData.parks, tbaData.parks, cfg)
            ELSE << >>
        discrepancies == autoCoral \o teleopCoral \o algae \o mobility \o endgame
        scoutedAutoCoralPoints ==
            scoutedData.autoCoralL1 * 3 + scoutedData.autoCoralL2 * 4
            + scoutedData.autoCoralL3 * 6 + scoutedData.autoCoralL4 * 7
        scoutedAutoAlgaePoints ==
            scoutedData.autoAlgaeNet * 4 + scoutedData.autoAlgaeProcessor * 6
        scoutedMobilityPoints == scoutedData.autoMobility * 3
        scoutedTeleopCoralPoints ==
            scoutedData.teleopCoralL1 * 2 + scoutedData.teleopCoralL2 * 3
            + scoutedData.teleopCoralL3 * 4 + scoutedData.teleopCoralL4 * 5
        scoutedTeleopAlgaePoints ==
            scoutedData.teleopAlgaeNet * 4 + scoutedData.teleopAlgaeProcessor * 6
        scoutedEndgamePoints ==
            scoutedData.parks * 2 + scoutedData.shallowClimbs * 6 + scoutedData.deepClimbs * 12
        estimatedScoutedScore ==
            scoutedAutoCoralPoints + scoutedAutoAlgaePoints + scoutedMobilityPoints
            + scoutedTeleopCoralPoints + scoutedTeleopAlgaePoints + scoutedEndgamePoints
        tbaBreakdownScore ==
            tbaData.autoCoralPoints + tbaData.teleopCoralPoints + tbaData.algaePoints
            + tbaData.mobilityPoints + tbaData.endgamePoints
        scoreDifference == Abs(estimatedScoutedScore - tbaBreakdownScore)
        criticalCount == CountSeverity(discrepancies, "critical")
        warningCount == CountSeverity(discrepancies, "warning")
        minorCount == CountSeverity(discrepancies, "minor")
    IN  [alliance |-> scoutedData.alliance,
         status |-> allianceStatus(criticalCount, warningCount, minorCount, cfg),
         confidence |-> allianceConfidence(scoutedData, criticalCount, warningCount),
         discrepancies |-> discrepancies,
         totalScoutedPoints |-> estimatedScoutedScore,
         totalTBAPoints |-> tbaBreakdownScore,
         scoreDifference |-> scoreDifference,
         scorePercentDiff10 |-> IF tbaBreakdownScore = 0 THEN 0
                                ELSE RoundDiv(scoreDifference * 1000, tbaBreakdownScore),
         scoutedData |-> scoutedData,
         tbaData |-> tbaData]

-----------------------------------------------------------------------------
(* validateMatch *)

\* a match status that forgets the warnings
matchStatus_noWarnings(criticalCount, warningCount, minorCount, cfg) ==
    IF criticalCount >= cfg.requireReScoutThreshold THEN "failed"
    ELSE IF criticalCount >= cfg.autoFlagThreshold THEN "flagged"
    ELSE IF minorCount > 6 THEN "flagged"
    ELSE "passed"

\* a match status that does not flag on critical discrepancies
matchStatus_noAutoFlag(criticalCount, warningCount, minorCount, cfg) ==
    IF criticalCount >= cfg.requireReScoutThreshold THEN "failed"
    ELSE IF warningCount > 2 THEN "flagged"
    ELSE IF warningCount > 0 \/ minorCount > 6 THEN "flagged"
    ELSE "passed"

\* a match status that fails only above the re-scout threshold
matchStatus_strictFail(criticalCount, warningCount, minorCount, cfg) ==
    IF criticalCount > cfg.requireReScoutThreshold THEN "failed"
    ELSE IF criticalCount >= cfg.autoFlagThreshold THEN "flagged"
    ELSE IF warningCount > 2 THEN "flagged"
    ELSE IF warningCount > 0 \/ minorCount > 6 THEN "flagged"
    ELSE "passed"

matchStatus(criticalCount, warningCount, minorCount, cfg) ==
    IF criticalCount >= cfg.requireReScoutThreshold THEN "failed"
    ELSE IF criticalCount >= cfg.autoFlagThreshold THEN "flagged"
    ELSE IF warningCount > 2 THEN "flagged"
    ELSE IF warningCount > 0 \/ minorCount > 6 THEN "flagged"
    ELSE "passed"

\* a match confidence that takes the red alliance's alone unless blue is low
matchConfidence_redOnly(redConfidence, blueConfidence) ==
    IF redConfidence = "low" \/ blueConfidence = "low" THEN "low"
    ELSE IF redConfidence = "medium" THEN "medium"
    ELSE "high"

matchConfidence(redConfidence, blueConfidence) ==
    IF redConfidence = "low" \/ blueConfidence = "low" THEN "low"
    ELSE IF redConfidence = "medium" \/ blueConfidence = "medium" THEN "medium"
    ELSE "high"

\* the team entries with flagForReview following the match-level flaggedForReview
teamValidations_flagFailed(tbaTeams, scoutedEntries, alliance, validation) ==
    [i \in 1..Len(tbaTeams) |->
        LET teamNum == tbaTeams[i]
            matching == SelectSeq(scoutedEntries, LAMBDA e : e.selectTeam = teamNum)
            hasData == matching # << >>
        IN  [teamNumber |-> teamNum,
             alliance |-> alliance,
             scoutName |-> IF hasData /\ matching[1].scoutName # ""
                           THEN matching[1].scoutName ELSE "Unknown",
             hasScoutedData |-> hasData,
             confidence |-> IF hasData THEN validation.confidence ELSE "low",
             flagForReview |-> ~hasData \/ validation.status \in {"flagged", "failed"},
             notes |-> IF hasData THEN << >> ELSE <<"No scouted data for this team">>]]

\* tbaX.teams.forEach(teamNum => teams.push({...}))
teamValidations(tbaTeams, scoutedEntries, alliance, validation) ==
    [i \in 1..Len(tbaTeams) |->
        LET teamNum == tbaTeams[i]
            matching == SelectSeq(scoutedEntries, LAMBDA e : e.selectTeam = teamNum)
            hasData == matching # << >>
        IN  [teamNumber |-> teamNum,
             alliance |-> alliance,
             scoutName |-> IF hasData /\ matching[1].scoutName # ""
                           THEN matching[1].scoutName ELSE "Unknown",
             hasScoutedData |-> hasData,
             confidence |-> IF hasData THEN validation.confidence ELSE "low",
             flagForReview |-> ~hasData \/ validation.status = "flagged",
             notes |-> IF hasData THEN << >> ELSE <<"No scouted data for this team">>]]

\* validateMatch from its third step on: the match-level result built from the two
\* alliance validations
matchValidation(eventKey, matchNumber, redEntries, blueEntries, match, cfg, tbaRed, tbaBlue, redValidation, blueValidation) ==
    LET allDiscrepancies == redValidation.discrepancies \o blueValidation.discrepancies
        criticalCount == CountSeverity(allDiscrepancies, "critical")
        warningCount == CountSeverity(allDiscrepancies, "warning")
        minorCount == CountSeverity(allDiscrepancies, "minor")
        status == matchStatus(criticalCount, warningCount, minorCount, cfg)
    IN  [id |-> <<eventKey, match.key>>,
         eventKey |-> eventKey,
         matchKey |-> match.key,
         matchNumber |-> matchNumber,
         compLevel |-> match.comp_level,
         status |-> status,
         confidence |-> matchConfidence(redValidation.confidence, blueValidation.confidence),
         redAlliance |-> redValidation,
         blueAlliance |-> blueValidation,
         teams |-> teamValidations(tbaRed.teams, redEntries, "red", redValidation)
                   \o teamValidations(tbaBlue.teams, blueEntries, "blue", blueValidation),
         totalDiscrepancies |-> Len(allDiscrepancies),
         criticalDiscrepancies |-> criticalCount,
         warningDiscrepancies |-> warningCount,
         flaggedForReview |-> status = "flagged" \/ status = "failed",
         requiresReScout |-> status = "failed"]


validateMatch(eventKey, matchNumber, redEntries, blueEntries, match, cfg) ==
    LET tbaRed == extractTBAAllianceData(match, "red")
        tbaBlue == extractTBAAllianceData(match, "blue")
        scoutedRed == aggregateScoutedAllianceData(redEntries, "red", matchNumber, eventKey, tbaRed.teams)
        scoutedBlue == aggregateScoutedAllianceData(blueEntries, "blue", matchNumber, eventKey, tbaBlue.teams)
    IN  matchValidation(eventKey, matchNumber, redEntries, blueEntries, match, cfg,
                        tbaRed, tbaBlue,
                        compareAllianceData(scoutedRed, tbaRed, cfg),
                        compareAllianceData(scoutedBlue, tbaBlue, cfg))

-----------------------------------------------------------------------------
(* Inputs of the classifier specification *)

AbsoluteLevels == {1, 2, 3, 5}

PercentLevels == { [critical |-> 50, warning |-> 25, minor |-> 10],
                   [critical |-> 100, warning |-> 60, minor |-> 30] }

\* every threshold set over the levels, ordered or not
ThresholdSets ==
    { [critical |-> p.critical, warning |-> p.warning, minor |-> p.minor,
       criticalAbsolute |-> c, warningAbsolute |-> w, minorAbsolute |-> m] :
      p \in PercentLevels, c \in AbsoluteLevels, w \in AbsoluteLevels, m \in AbsoluteLevels }

\* a threshold set no count of the model reaches
DecoyThresholds ==
    [critical |-> 1000, warning |-> 1000, minor |-> 1000,
     criticalAbsolute |-> 1000, warningAbsolute |-> 1000, minorAbsolute |-> 1000]

AllChecks == [checkAutoScoring |-> TRUE, checkTeleopScoring |-> TRUE, checkEndgame |-> TRUE]

MkConfig(th, catTh, checks, autoFlag, reScout) ==
    [thresholds |-> th,
     categoryThresholds |-> catTh,
     checkAutoScoring |-> checks.checkAutoScoring,
     checkTeleopScoring |-> checks.checkTeleopScoring,
     checkEndgame |-> checks.checkEndgame,
     autoFlagThreshold |-> autoFlag,
     requireReScoutThreshold |-> reScout]

NoCategoryThresholds == [c \in {} |-> DecoyThresholds]

\* th as the default set, as the set of the category, or beside another category's set
SeverityConfigs ==
    { MkConfig(th, NoCategoryThresholds, AllChecks, 1, 3) : th \in ThresholdSets }
    \cup { MkConfig(DecoyThresholds, [c \in {"algae"} |-> th], AllChecks, 1, 3) :
           th \in ThresholdSets }
    \cup { MkConfig(th, [c \in {"endgame"} |-> DecoyThresholds], AllChecks, 1, 3) :
           th \in ThresholdSets }

EmptyMatch == [key |-> "", comp_level |-> "", match_number |-> 0,
               alliances |-> [red |-> [team_keys |-> << >>, score |-> 0],
                              blue |-> [team_keys |-> << >>, score |-> 0]],
               score_breakdown |-> << >>]

InitSeverity ==
    /\ phase = "input"
    /\ config \in SeverityConfigs
    /\ category = "algae"
    /\ scoutedValue \in 0..MaxCount
    /\ tbaValue \in 0..MaxCount
    /\ discrepancy = << >>
    /\ scoutedRedEntries = << >>
    /\ scoutedBlueEntries = << >>
    /\ tbaMatch = EmptyMatch
    /\ result = << >>
    /\ ImportIdle
    /\ EventIdle
    /\ ReplaceIdle
    /\ CombinedIdle
    /\ DisplayIdle
    /\ ApplyIdle

CreateDiscrepancy ==
    /\ phase = "input"
    /\ discrepancy' = createDiscrepancy(category, "Total Algae Net", scoutedValue, tbaValue, config)
    /\ phase' = "done"
    /\ UNCHANGED <<config, category, scoutedValue, tbaValue,
                   scoutedRedEntries, scoutedBlueEntries, tbaMatch, result>>
    /\ UNCHANGED <<importVars, eventVars, replaceVars, applyVars, displayVars, combinedVars>>

NextSeverity == CreateDiscrepancy

SpecSeverity == InitSeverity /\ [][NextSeverity]_vars

-----------------------------------------------------------------------------
(* Inputs of the match validation specification *)

\* what one robot did in one match: the counters and flags of a ScoutingEntry
PerformanceA ==
    [autoCoral |-> <<0, 0, 0, 1>>, teleopCoral |-> <<1, 0, 1, 0>>,
     autoAlgaeNet |-> 0, autoAlgaeProcessor |-> 0,
     teleopAlgaeNet |-> 1, teleopAlgaeProcessor |-> 0,
     autoPassedStartLine |-> TRUE,
     deepClimbAttempted |-> FALSE, shallowClimbAttempted |-> FALSE,
     parkAttempted |-> TRUE, climbFailed |-> FALSE]

PerformanceB ==
    [autoCoral |-> <<1, 0, 1, 0>>, teleopCoral |-> <<0, 2, 1, 1>>,
     autoAlgaeNet |-> 0, autoAlgaeProcessor |-> 1,
     teleopAlgaeNet |-> 2, teleopAlgaeProcessor |-> 1,
     autoPassedStartLine |-> FALSE,
     deepClimbAttempted |-> TRUE, shallowClimbAttempted |-> FALSE,
     parkAttempted |-> FALSE, climbFailed |-> FALSE]

Performances == {PerformanceA, PerformanceB}

\* the scouting record a scout saves for a team that performed p
MkEntry(team, scout, p) ==
    [selectTeam |-> team, scoutName |-> scout,
     autoCoralPlaceL1Count |-> p.autoCoral[1], autoCoralPlaceL2Count |-> p.autoCoral[2],
     autoCoralPlaceL3Count |-> p.autoCoral[3], autoCoralPlaceL4Count |-> p.autoCoral[4],
     teleopCoralPlaceL1Count |-> p.teleopCoral[1], teleopCoralPlaceL2Count |-> p.teleopCoral[2],
     teleopCoralPlaceL3Count |-> p.teleopCoral[3], teleopCoralPlaceL4Count |-> p.teleopCoral[4],
     autoAlgaePlaceNetShot |-> p.autoAlgaeNet, autoAlgaePlaceProcessor |-> p.autoAlgaeProcessor,
     teleopAlgaePlaceNetShot |-> p.teleopAlgaeNet,
     teleopAlgaePlaceProcessor |-> p.teleopAlgaeProcessor,
     autoPassedStartLine |-> p.autoPassedStartLine,
     deepClimbAttempted |-> p.deepClimbAttempted,
     shallowClimbAttempted |-> p.shallowClimbAttempted,
     parkAttempted |-> p.parkAttempted,
     climbFailed |-> p.climbFailed,
     brokeDown |-> FALSE, playedDefense |-> FALSE]

RedTeams == <<"100", "200", "300">>
BlueTeams == <<"400", "500", "600">>

\* the i-th record of an alliance is for its i-th team; a fourth repeats the first
TeamAt(teams, i) == teams[((i - 1) % Len(teams)) + 1]

EntryLists(teams) ==
    UNION { { [i \in 1..k |-> MkEntry(TeamAt(teams, i), "scout", ps[i])] :
              ps \in [1..k -> Performances] } : k \in 0..MaxEntries }

\* the record lists of an alliance whose robots all performed alike
UniformEntryLists(teams) ==
    { [i \in 1..k |-> MkEntry(TeamAt(teams, i), "scout", p)] :
      k \in 0..MaxEntries, p \in Performances }

EndGameOf(p) ==
    IF p.deepClimbAttempted /\ ~p.climbFailed THEN "DeepCage"
    ELSE IF p.shallowClimbAttempted /\ ~p.climbFailed THEN "ShallowCage"
    ELSE IF p.parkAttempted THEN "Parked"
    ELSE "None"

YesNo(b) == IF b THEN "Yes" ELSE "No"

\* the score breakdown the official feed publishes for three robots that performed
\* ps; final: the teleop reef counts include the auto counts, as the feed defines
\* them (an inconsistent feed publishes teleop counts below the auto counts)
OfficialBreakdown(ps, final) ==
    LET auto == [l \in 1..4 |-> ps[1].autoCoral[l] + ps[2].autoCoral[l] + ps[3].autoCoral[l]]
        tele == [l \in 1..4 |-> ps[1].teleopCoral[l] + ps[2].teleopCoral[l] + ps[3].teleopCoral[l]]
        reef == [l \in 1..4 |-> IF final THEN auto[l] + tele[l] ELSE tele[l]]
        net == Reduce([i \in 1..3 |-> ps[i].autoAlgaeNet + ps[i].teleopAlgaeNet])
        wall == Reduce([i \in 1..3 |-> ps[i].autoAlgaeProcessor + ps[i].teleopAlgaeProcessor])
        line == Reduce([i \in 1..3 |-> One(ps[i].autoPassedStartLine)])
        ends == [i \in 1..3 |-> EndGameOf(ps[i])]
        autoCoralPoints == auto[1] * 3 + auto[2] * 4 + auto[3] * 6 + auto[4] * 7
        teleopCoralPoints == tele[1] * 2 + tele[2] * 3 + tele[3] * 4 + tele[4] * 5
        algaePoints == net * 4 + wall * 6
        endGameBargePoints == CountOf(ends, "Parked") * 2 + CountOf(ends, "ShallowCage") * 6
                              + CountOf(ends, "DeepCage") * 12
    IN  [autoLineRobot1 |-> YesNo(ps[1].autoPassedStartLine),
         autoLineRobot2 |-> YesNo(ps[2].autoPassedStartLine),
         autoLineRobot3 |-> YesNo(ps[3].autoPassedStartLine),
         endGameRobot1 |-> ends[1], endGameRobot2 |-> ends[2], endGameRobot3 |-> ends[3],
         autoReef |-> [trough |-> auto[1], tba_botRowCount |-> auto[2],
                       tba_midRowCount |-> auto[3], tba_topRowCount |-> auto[4]],
         teleopReef |-> [trough |-> reef[1], tba_botRowCount |-> reef[2],
                         tba_midRowCount |-> reef[3], tba_topRowCount |-> reef[4]],
         autoCoralCount |-> Reduce(auto),
         teleopCoralCount |-> Reduce(tele),
         netAlgaeCount |-> net,
         wallAlgaeCount |-> wall,
         autoCoralPoints |-> autoCoralPoints,
         teleopCoralPoints |-> teleopCoralPoints,
         algaePoints |-> algaePoints,
         autoMobilityPoints |-> line * 3,
         endGameBargePoints |-> endGameBargePoints,
         autoPoints |-> autoCoralPoints + line * 3,
         teleopPoints |-> teleopCoralPoints + algaePoints + endGameBargePoints,
         foulPoints |-> 0, foulCount |-> 0, techFoulCount |-> 0,
         autoBonusAchieved |-> line = 3,
         coralBonusAchieved |-> FALSE,
         bargeBonusAchieved |-> FALSE]

OfficialBreakdowns ==
    { OfficialBreakdown(<<PerformanceA, PerformanceA, PerformanceA>>, TRUE),
      OfficialBreakdown(<<PerformanceA, PerformanceB, PerformanceB>>, TRUE),
      OfficialBreakdown(<<PerformanceA, PerformanceA, PerformanceA>>, FALSE) }

TeamKeys(teams, n) == [i \in 1..n |-> [prefix |-> "frc", number |-> teams[i]]]

MkMatch(n, breakdown) ==
    [key |-> "2025test_qm10", comp_level |-> "qm", match_number |-> 10,
     alliances |-> [red |-> [team_keys |-> TeamKeys(RedTeams, n), score |-> 50],
                    blue |-> [team_keys |-> TeamKeys(BlueTeams, n), score |-> 40]],
     score_breakdown |-> breakdown]

\* the official roster names three teams per alliance, or two in a short payload
OfficialMatches ==
    { MkMatch(3, << >>), MkMatch(2, << >>) }
    \cup { MkMatch(3, << [red |-> r, blue |-> b] >>) :
           r \in OfficialBreakdowns, b \in OfficialBreakdowns }
    \cup { MkMatch(2, << [red |-> r, blue |-> r] >>) : r \in OfficialBreakdowns }

MkThresholds(m, w, c) ==
    [critical |-> 50, warning |-> 25, minor |-> 10,
     criticalAbsolute |-> c, warningAbsolute |-> w, minorAbsolute |-> m]

ValidationThresholds == { MkThresholds(1, 2, 3), MkThresholds(1, 20, 20), MkThresholds(1, 1, 20) }

OneCheckOff ==
    { [AllChecks EXCEPT ![c] = FALSE] :
      c \in {"checkAutoScoring", "checkTeleopScoring", "checkEndgame"} }

ValidationConfigs ==
    { MkConfig(th, NoCategoryThresholds, AllChecks, af, rr) :
      th \in ValidationThresholds, af \in {1, 2}, rr \in {1, 3} }
    \cup { MkConfig(MkThresholds(1, 2, 3), [c \in {"endgame"} |-> MkThresholds(1, 2, 2)],
                    AllChecks, af, rr) : af \in {1, 2}, rr \in {1, 3} }
    \cup { MkConfig(MkThresholds(1, 2, 3), NoCategoryThresholds, ch, 1, 3) : ch \in OneCheckOff }
    \cup { MkConfig(MkThresholds(3, 3, 3), NoCategoryThresholds, AllChecks, af, 3) : af \in {1, 2} }
    \cup { MkConfig(MkThresholds(0, 2, 3), NoCategoryThresholds, AllChecks, 1, 3) }

Init ==
    /\ phase = "input"
    /\ config \in ValidationConfigs
    /\ category = "algae"
    /\ scoutedValue = 0
    /\ tbaValue = 0
    /\ discrepancy = << >>
    /\ scoutedRedEntries \in EntryLists(RedTeams)
    /\ scoutedBlueEntries \in UniformEntryLists(BlueTeams)
    /\ tbaMatch \in OfficialMatches
    /\ result = << >>
    /\ ImportIdle
    /\ EventIdle
    /\ ReplaceIdle
    /\ CombinedIdle
    /\ DisplayIdle
    /\ ApplyIdle

ValidateMatch ==
    /\ phase = "input"
    /\ result' = << validateMatch("2025test", "10", scoutedRedEntries, scoutedBlueEntries,
                                  tbaMatch, config) >>
    /\ phase' = "done"
    /\ UNCHANGED <<config, category, scoutedValue, tbaValue, discrepancy,
                   scoutedRedEntries, scoutedBlueEntries, tbaMatch>>
    /\ UNCHANGED <<importVars, eventVars, replaceVars, applyVars, displayVars, combinedVars>>

Next == ValidateMatch

Spec == Init /\ [][Next]_vars

-----------------------------------------------------------------------------
(* Claims about the severity classifier, checked under SpecSeverity *)

\* the threshold set the claims speak of: the category's when configured, else the default
ClaimThresholds ==
    IF category \in DOMAIN config.categoryThresholds
    THEN config.categoryThresholds[category]
    ELSE config.thresholds

ClaimDifference == Abs(scoutedValue - tbaValue)

ClaimSeverityFor(s) ==
    SeverityOf(createDiscrepancy(category, "Total Algae Net", s, tbaValue, config))

\* C1 (as stated): whenever |scouted - official| < warningAbsolute the severity is
\* 'none' and no discrepancy is emitted, whatever minorAbsolute and the percentage are.
C1_BelowWarningIsNone ==
    (phase = "done" /\ ClaimDifference < ClaimThresholds.warningAbsolute)
        => discrepancy = << >>

\* C1 (amended): whenever |scouted - official| < warningAbsolute the percentage never
\* decides: the severity is critical when the difference reaches criticalAbsolute,
\* else minor when it reaches minorAbsolute, else none with no discrepancy emitted.
C1_BelowWarningAbsoluteOnly ==
    (phase = "done" /\ ClaimDifference < ClaimThresholds.warningAbsolute)
        => /\ SeverityOf(discrepancy) =
                IF ClaimDifference >= ClaimThresholds.criticalAbsolute THEN "critical"
                ELSE IF ClaimDifference >= ClaimThresholds.minorAbsolute THEN "minor"
                ELSE "none"
           /\ (SeverityOf(discrepancy) = "none") = (discrepancy = << >>)

\* a pair below every absolute threshold with a percentage at or above critical%
C1_Witness ==
    /\ phase = "done"
    /\ ClaimDifference > 0
    /\ ClaimDifference < ClaimThresholds.warningAbsolute
    /\ ClaimDifference < ClaimThresholds.minorAbsolute
    /\ ClaimDifference < ClaimThresholds.criticalAbsolute
    /\ PercentGE(PercentDiff(scoutedValue, tbaValue), ClaimThresholds.critical)
    /\ discrepancy = << >>

\* C2: for the official value and thresholds at hand, a scouted value at most as far
\* from the official value never gets a higher severity, and one at least as far never
\* gets a lower one (none < minor < warning < critical), ordered thresholds or not.
C2_SeverityMonotone ==
    phase = "done" =>
        \A s \in 0..MaxCount :
            /\ Abs(s - tbaValue) <= ClaimDifference
                 => SeverityOrdinal(ClaimSeverityFor(s)) <= SeverityOrdinal(SeverityOf(discrepancy))
            /\ Abs(s - tbaValue) >= ClaimDifference
                 => SeverityOrdinal(ClaimSeverityFor(s)) >= SeverityOrdinal(SeverityOf(discrepancy))

\* thresholds out of order, and a nearer scouted value with a strictly lower severity
C2_Witness ==
    /\ phase = "done"
    /\ ClaimThresholds.minorAbsolute > ClaimThresholds.warningAbsolute
    /\ ClaimThresholds.warningAbsolute > ClaimThresholds.criticalAbsolute
    /\ \E s \in 0..MaxCount :
          /\ Abs(s - tbaValue) < ClaimDifference
          /\ SeverityOrdinal(ClaimSeverityFor(s)) < SeverityOrdinal(SeverityOf(discrepancy))

\* C3: critical when difference >= criticalAbsolute, otherwise warning when
\* difference >= warningAbsolute, otherwise minor when difference >= minorAbsolute,
\* with the category's threshold set when one is configured and the default set otherwise.
C3_AbsoluteClassification ==
    phase = "done" =>
        /\ ClaimDifference >= ClaimThresholds.criticalAbsolute
             => SeverityOf(discrepancy) = "critical"
        /\ (ClaimDifference < ClaimThresholds.criticalAbsolute
            /\ ClaimDifference >= ClaimThresholds.warningAbsolute)
             => SeverityOf(discrepancy) = "warning"
        /\ (ClaimDifference < ClaimThresholds.criticalAbsolute
            /\ ClaimDifference < ClaimThresholds.warningAbsolute
            /\ ClaimDifference >= ClaimThresholds.minorAbsolute)
             => SeverityOf(discrepancy) = "minor"

\* scouted 5, official 2, the category's own set with warningAbsolute 2, criticalAbsolute 5
C3_Witness ==
    /\ phase = "done"
    /\ scoutedValue = 5
    /\ tbaValue = 2
    /\ category \in DOMAIN config.categoryThresholds
    /\ config.categoryThresholds[category].warningAbsolute = 2
    /\ config.categoryThresholds[category].criticalAbsolute = 5
    /\ config.thresholds.criticalAbsolute > 5
    /\ SeverityOf(discrepancy) = "warning"

\* C4: a difference in [warningAbsolute, criticalAbsolute) whose percentage reaches
\* critical% is classified critical: the percentage test raises the absolute result.
C4_PercentEscalation ==
    (/\ phase = "done"
     /\ ClaimDifference >= ClaimThresholds.warningAbsolute
     /\ ClaimDifference < ClaimThresholds.criticalAbsolute
     /\ PercentGE(PercentDiff(scoutedValue, tbaValue), ClaimThresholds.critical))
        => SeverityOf(discrepancy) = "critical"

-----------------------------------------------------------------------------
(* Claims about validateMatch, checked under Spec *)

Res == result[1]

ClaimAlliances == {"red", "blue"}

ClaimValidation(a) == IF a = "red" THEN Res.redAlliance ELSE Res.blueAlliance

ClaimEntries(a) == IF a = "red" THEN scoutedRedEntries ELSE scoutedBlueEntries

\* the team numbers the official payload names for alliance a
ClaimRoster(a) ==
    { tbaMatch.alliances[a].team_keys[i].number :
      i \in 1..Len(tbaMatch.alliances[a].team_keys) }

ClaimHasRecord(a, t) ==
    \E i \in 1..Len(ClaimEntries(a)) : ClaimEntries(a)[i].selectTeam = t

\* the official reef counts of alliance a as published: zero without a breakdown
ClaimReef(a, period) ==
    IF tbaMatch.score_breakdown = << >>
    THEN <<0, 0, 0, 0>>
    ELSE LET reef == tbaMatch.score_breakdown[1][a][period]
         IN  <<reef.trough, reef.tba_botRowCount, reef.tba_midRowCount, reef.tba_topRowCount>>

\* final count less auto count, zero when the final count is the smaller
ClaimTeleopOnly(a, l) ==
    IF ClaimReef(a, "teleopReef")[l] >= ClaimReef(a, "autoReef")[l]
    THEN ClaimReef(a, "teleopReef")[l] - ClaimReef(a, "autoReef")[l]
    ELSE 0

ClaimTeleopFields == <<"Teleop Coral L1", "Teleop Coral L2", "Teleop Coral L3", "Teleop Coral L4">>

\* C5: every teleop coral discrepancy compares the scouted teleop count of its level
\* with max(0, official final count - official auto count), never a negative value,
\* and the total compares with the sum of the four clamped values.
C5_TeleopCumulativeSubtraction ==
    phase = "done" =>
        \A a \in ClaimAlliances :
            \A i \in 1..Len(ClaimValidation(a).discrepancies) :
                LET d == ClaimValidation(a).discrepancies[i]
                IN  d.category = "teleop-coral" =>
                        /\ d.tbaValue >= 0
                        /\ \A l \in 1..4 :
                              d.field = ClaimTeleopFields[l] => d.tbaValue = ClaimTeleopOnly(a, l)
                        /\ d.field = "Teleop Coral Total" =>
                              d.tbaValue = ClaimTeleopOnly(a, 1) + ClaimTeleopOnly(a, 2)
                                           + ClaimTeleopOnly(a, 3) + ClaimTeleopOnly(a, 4)

\* official auto L3 = 2 and final L3 = 5 compared as 3, and on the other alliance a
\* final L4 count below the auto L4 count compared as 0
C5_Witness ==
    /\ phase = "done"
    /\ \E a \in ClaimAlliances :
          /\ ClaimReef(a, "autoReef")[3] = 2
          /\ ClaimReef(a, "teleopReef")[3] = 5
          /\ \E i \in 1..Len(ClaimValidation(a).discrepancies) :
                /\ ClaimValidation(a).discrepancies[i].field = "Teleop Coral L3"
                /\ ClaimValidation(a).discrepancies[i].tbaValue = 3
    /\ \E a \in ClaimAlliances :
          /\ ClaimReef(a, "teleopReef")[4] < ClaimReef(a, "autoReef")[4]
          /\ \E i \in 1..Len(ClaimValidation(a).discrepancies) :
                /\ ClaimValidation(a).discrepancies[i].field = "Teleop Coral L4"
                /\ ClaimValidation(a).discrepancies[i].tbaValue = 0

\* C6: the match status is never 'passed' when the red or the blue alliance status
\* is 'failed'.
C6_NeverPassedWhenAllianceFailed ==
    phase = "done" =>
        ~(/\ Res.status = "passed"
          /\ \E a \in ClaimAlliances : ClaimValidation(a).status = "failed")

\* one alliance failed, the other passed, and the match is only flagged
C6_Witness ==
    /\ phase = "done"
    /\ Res.redAlliance.status = "failed"
    /\ Res.blueAlliance.status = "passed"
    /\ Res.status = "flagged"

ClaimCount(a, sev) == CountSeverity(ClaimValidation(a).discrepancies, sev)

ClaimCriticalTotal == ClaimCount("red", "critical") + ClaimCount("blue", "critical")

\* C7 (as stated): the match status is never lower than the worse of the two
\* alliance statuses (passed < flagged < failed).
C7_MatchNeverBetterThanAlliances ==
    phase = "done" =>
        \A a \in ClaimAlliances :
            StatusOrdinal(Res.status) >= StatusOrdinal(ClaimValidation(a).status)

\* C7 (amended): the match status is never lower than an alliance's status, except
\* that a failed alliance gives a flagged match while the combined critical count
\* is below requireReScoutThreshold, and that an alliance flagged without any
\* warning discrepancy may give a passed match.
C7_MatchNeverBetterExceptThresholds ==
    phase = "done" =>
        \A a \in ClaimAlliances :
            LET st == ClaimValidation(a).status
                failedBelowReScout ==
                    st = "failed" /\ ClaimCriticalTotal < config.requireReScoutThreshold
                flaggedWithoutWarning ==
                    st = "flagged" /\ ClaimCount(a, "warning") = 0
            IN  /\ (~failedBelowReScout /\ ~flaggedWithoutWarning)
                      => StatusOrdinal(Res.status) >= StatusOrdinal(st)
                /\ failedBelowReScout => Res.status = "flagged"

\* an alliance flagged by a warning alone beside a passed one: the match is flagged
C7_Witness ==
    /\ phase = "done"
    /\ Res.redAlliance.status = "flagged"
    /\ ClaimCount("red", "warning") > 0
    /\ ClaimCount("red", "critical") = 0
    /\ Res.blueAlliance.status = "passed"
    /\ Res.status = "flagged"

\* C8: the match is failed whenever the combined critical count reaches
\* requireReScoutThreshold; requiresReScout holds exactly when the status is failed,
\* flaggedForReview exactly when it is flagged or failed.
C8_FailedAtReScoutThreshold ==
    phase = "done" =>
        /\ ClaimCriticalTotal >= config.requireReScoutThreshold => Res.status = "failed"
        /\ Res.requiresReScout = (Res.status = "failed")
        /\ Res.flaggedForReview = (Res.status \in {"flagged", "failed"})

\* the combined count is exactly the threshold of 3, neither alliance reaching it alone
C8_Witness ==
    /\ phase = "done"
    /\ config.requireReScoutThreshold = 3
    /\ ClaimCriticalTotal = 3
    /\ ClaimCount("red", "critical") < 3
    /\ ClaimCount("blue", "critical") < 3
    /\ Res.status = "failed"
    /\ Res.requiresReScout
    /\ Res.flaggedForReview

ClaimMin(x, y) == IF x <= y THEN x ELSE y

\* C9: the match confidence is the lower of the two alliance confidences
\* (low < medium < high).
C9_ConfidenceIsWorst ==
    phase = "done" =>
        ConfidenceOrdinal(Res.confidence) =
            ClaimMin(ConfidenceOrdinal(Res.redAlliance.confidence),
                     ConfidenceOrdinal(Res.blueAlliance.confidence))

\* red high, blue medium: the match is medium
C9_Witness ==
    /\ phase = "done"
    /\ Res.redAlliance.confidence = "high"
    /\ Res.blueAlliance.confidence = "medium"
    /\ Res.confidence = "medium"

\* C10 (as stated): an alliance with fewer than three scouted records has confidence
\* low, and so has the match, whatever the official roster holds.
C10_FewerThanThreeIsLow ==
    phase = "done" =>
        \A a \in ClaimAlliances :
            Len(ClaimEntries(a)) < 3
                => ClaimValidation(a).confidence = "low" /\ Res.confidence = "low"

\* C10 (amended): an alliance whose official roster names a team without a scouted
\* record has confidence low, and so has the match, whatever the discrepancies;
\* this covers every alliance with fewer than three records whose roster names
\* three distinct teams.
C10_MissingRosterTeamIsLow ==
    phase = "done" =>
        \A a \in ClaimAlliances :
            /\ (\E t \in ClaimRoster(a) : ~ClaimHasRecord(a, t))
                  => ClaimValidation(a).confidence = "low" /\ Res.confidence = "low"
            /\ (Len(ClaimEntries(a)) < 3 /\ Cardinality(ClaimRoster(a)) = 3)
                  => ClaimValidation(a).confidence = "low" /\ Res.confidence = "low"

\* two records for a roster of three, no critical and no warning discrepancy found,
\* confidence low
C10_Witness ==
    /\ phase = "done"
    /\ Len(scoutedRedEntries) = 2
    /\ Cardinality(ClaimRoster("red")) = 3
    /\ ClaimCount("red", "critical") = 0
    /\ ClaimCount("red", "warning") = 0
    /\ Res.redAlliance.confidence = "low"
    /\ Res.confidence = "low"

-----------------------------------------------------------------------------
(* calculateAllianceStats, buildAllianceData *)

\* entries.filter(keep).length, s being the sequence of the keep(e)
CountTrue(s) == Reduce([i \in 1..Len(s) |-> One(s[i])])

EntryAutoCoral(e) ==
    e.autoCoralPlaceL1Count + e.autoCoralPlaceL2Count
    + e.autoCoralPlaceL3Count + e.autoCoralPlaceL4Count

EntryTeleopCoral(e) ==
    e.teleopCoralPlaceL1Count + e.teleopCoralPlaceL2Count
    + e.teleopCoralPlaceL3Count + e.teleopCoralPlaceL4Count

\* a total that leaves the teleop L4 count out
EntryTotalCoral_noTeleopL4(e) ==
    e.autoCoralPlaceL1Count + e.autoCoralPlaceL2Count
    + e.autoCoralPlaceL3Count + e.autoCoralPlaceL4Count
    + e.teleopCoralPlaceL1Count + e.teleopCoralPlaceL2Count
    + e.teleopCoralPlaceL3Count

\* the callback of the totalCoral reduction
EntryTotalCoral(e) ==
    e.autoCoralPlaceL1Count + e.autoCoralPlaceL2Count
    + e.autoCoralPlaceL3Count + e.autoCoralPlaceL4Count
    + e.teleopCoralPlaceL1Count + e.teleopCoralPlaceL2Count
    + e.teleopCoralPlaceL3Count + e.teleopCoralPlaceL4Count

createEmptyAllianceStats ==
    [autoCoralL1 |-> 0, autoCoralL2 |-> 0, autoCoralL3 |-> 0, autoCoralL4 |-> 0,
     autoCoralTotal |-> 0,
     teleopCoralL1 |-> 0, teleopCoralL2 |-> 0, teleopCoralL3 |-> 0, teleopCoralL4 |-> 0,
     teleopCoralTotal |-> 0,
     totalCoralL1 |-> 0, totalCoralL2 |-> 0, totalCoralL3 |-> 0, totalCoralL4 |-> 0,
     totalCoral |-> 0,
     autoAlgaeNet |-> 0, autoAlgaeProcessor |-> 0, autoAlgaeTotal |-> 0,
     teleopAlgaeNet |-> 0, teleopAlgaeProcessor |-> 0, teleopAlgaeTotal |-> 0,
     totalAlgaeNet |-> 0, totalAlgaeProcessor |-> 0, totalAlgae |-> 0,
     deepClimbs |-> 0, shallowClimbs |-> 0, parks |-> 0, noEndgame |-> 0,
     climbFailures |-> 0,
     teamsPassedStartLine |-> 0,
     breakdowns |-> 0, defensePlayedCount |-> 0]

calculateAllianceStats(entries) ==
    IF Len(entries) = 0 THEN createEmptyAllianceStats
    ELSE
    [autoCoralL1 |-> Reduce([i \in 1..Len(entries) |-> entries[i].autoCoralPlaceL1Count]),
     autoCoralL2 |-> Reduce([i \in 1..Len(entries) |-> entries[i].autoCoralPlaceL2Count]),
     autoCoralL3 |-> Reduce([i \in 1..Len(entries) |-> entries[i].autoCoralPlaceL3Count]),
     autoCoralL4 |-> Reduce([i \in 1..Len(entries) |-> entries[i].autoCoralPlaceL4Count]),
     autoCoralTotal |-> Reduce([i \in 1..Len(entries) |-> EntryAutoCoral(entries[i])]),
     teleopCoralL1 |-> Reduce([i \in 1..Len(entries) |-> entries[i].teleopCoralPlaceL1Count]),
     teleopCoralL2 |-> Reduce([i \in 1..Len(entries) |-> entries[i].teleopCoralPlaceL2Count]),
     teleopCoralL3 |-> Reduce([i \in 1..Len(entries) |-> entries[i].teleopCoralPlaceL3Count]),
     teleopCoralL4 |-> Reduce([i \in 1..Len(entries) |-> entries[i].teleopCoralPlaceL4Count]),
     teleopCoralTotal |-> Reduce([i \in 1..Len(entries) |-> EntryTeleopCoral(entries[i])]),
     totalCoralL1 |-> Reduce([i \in 1..Len(entries) |->
         entries[i].autoCoralPlaceL1Count + entries[i].teleopCoralPlaceL1Count]),
     totalCoralL2 |-> Reduce([i \in 1..Len(entries) |->
         entries[i].autoCoralPlaceL2Count + entries[i].teleopCoralPlaceL2Count]),
     totalCoralL3 |-> Reduce([i \in 1..Len(entries) |->
         entries[i].autoCoralPlaceL3Count + entries[i].teleopCoralPlaceL3Count]),
     totalCoralL4 |-> Reduce([i \in 1..Len(entries) |->
         entries[i].autoCoralPlaceL4Count + entries[i].teleopCoralPlaceL4Count]),
     totalCoral |-> Reduce([i \in 1..Len(entries) |-> EntryTotalCoral(entries[i])]),
     autoAlgaeNet |-> Reduce([i \in 1..Len(entries) |-> entries[i].autoAlgaePlaceNetShot]),
     autoAlgaeProcessor |-> Reduce([i \in 1..Len(entries) |-> entries[i].autoAlgaePlaceProcessor]),
     autoAlgaeTotal |-> Reduce([i \in 1..Len(entries) |->
         entries[i].autoAlgaePlaceNetShot + entries[i].autoAlgaePlaceProcessor]),
     teleopAlgaeNet |-> Reduce([i \in 1..Len(entries) |-> entries[i].teleopAlgaePlaceNetShot]),
     teleopAlgaeProcessor |-> Reduce([i \in 1..Len(entries) |-> entries[i].teleopAlgaePlaceProcessor]),
     teleopAlgaeTotal |-> Reduce([i \in 1..Len(entries) |->
         entries[i].teleopAlgaePlaceNetShot + entries[i].teleopAlgaePlaceProcessor]),
     totalAlgaeNet |-> Reduce([i \in 1..Len(entries) |->
         entries[i].autoAlgaePlaceNetShot + entries[i].teleopAlgaePlaceNetShot]),
     totalAlgaeProcessor |-> Reduce([i \in 1..Len(entries) |->
         entries[i].autoAlgaePlaceProcessor + entries[i].teleopAlgaePlaceProcessor]),
     totalAlgae |-> Reduce([i \in 1..Len(entries) |->
         entries[i].autoAlgaePlaceNetShot + entries[i].autoAlgaePlaceProcessor
         + entries[i].teleopAlgaePlaceNetShot + entries[i].teleopAlgaePlaceProcessor]),
     deepClimbs |-> CountTrue([i \in 1..Len(entries) |-> entries[i].deepClimbAttempted]),
     shallowClimbs |-> CountTrue([i \in 1..Len(entries) |-> entries[i].shallowClimbAttempted]),
     parks |-> CountTrue([i \in 1..Len(entries) |-> entries[i].parkAttempted]),
     noEndgame |-> CountTrue([i \in 1..Len(entries) |->
         ~entries[i].deepClimbAttempted /\ ~entries[i].shallowClimbAttempted
         /\ ~entries[i].parkAttempted]),
     climbFailures |-> CountTrue([i \in 1..Len(entries) |-> entries[i].climbFailed]),
     teamsPassedStartLine |-> CountTrue([i \in 1..Len(entries) |-> entries[i].autoPassedStartLine]),
     breakdowns |-> CountTrue([i \in 1..Len(entries) |-> entries[i].brokeDown]),
     defensePlayedCount |-> CountTrue([i \in 1..Len(entries) |-> entries[i].playedDefense])]

buildAllianceData(entries) ==
    [teams |-> SelectSeq([i \in 1..Len(entries) |-> entries[i].selectTeam],
                         LAMBDA t : t # ""),
     entries |-> entries,
     aggregatedStats |-> calculateAllianceStats(entries),
     scoutNames |-> [i \in 1..Len(entries) |->
                        IF entries[i].scoutName = "" THEN "Unknown" ELSE entries[i].scoutName],
     missingTeams |-> << >>,
     isComplete |-> Len(entries) = 3]

\* the alliance part of aggregateMatchData: the entries of the match are already
\* separated by alliance
InitAggregate ==
    /\ phase = "input"
    /\ config \in {MkConfig(MkThresholds(1, 2, 3), NoCategoryThresholds, AllChecks, 1, 3)}
    /\ category = "algae"
    /\ scoutedValue = 0
    /\ tbaValue = 0
    /\ discrepancy = << >>
    /\ scoutedRedEntries \in EntryLists(RedTeams)
    /\ scoutedBlueEntries \in EntryLists(BlueTeams)
    /\ tbaMatch = EmptyMatch
    /\ result = << >>
    /\ ImportIdle
    /\ EventIdle
    /\ ReplaceIdle
    /\ CombinedIdle
    /\ DisplayIdle
    /\ ApplyIdle

AggregateMatchData ==
    /\ phase = "input"
    /\ result' = << [redAlliance |-> buildAllianceData(scoutedRedEntries),
                     blueAlliance |-> buildAllianceData(scoutedBlueEntries)] >>
    /\ phase' = "done"
    /\ UNCHANGED <<config, category, scoutedValue, tbaValue, discrepancy,
                   scoutedRedEntries, scoutedBlueEntries, tbaMatch>>
    /\ UNCHANGED <<importVars, eventVars, replaceVars, applyVars, displayVars, combinedVars>>

NextAggregate == AggregateMatchData

SpecAggregate == InitAggregate /\ [][NextAggregate]_vars

-----------------------------------------------------------------------------
(* Aggregation claims, checked under SpecAggregate *)

RECURSIVE ClaimSumCoral(_)
ClaimSumCoral(entries) ==
    IF entries = << >> THEN 0
    ELSE LET e == Head(entries)
         IN  e.autoCoralPlaceL1Count + e.autoCoralPlaceL2Count + e.autoCoralPlaceL3Count
             + e.autoCoralPlaceL4Count + e.teleopCoralPlaceL1Count
             + e.teleopCoralPlaceL2Count + e.teleopCoralPlaceL3Count
             + e.teleopCoralPlaceL4Count + ClaimSumCoral(Tail(entries))

ClaimAllianceData(a) == IF a = "red" THEN Res.redAlliance ELSE Res.blueAlliance

-----------------------------------------------------------------------------
(* Claims about the official data, checked under Spec *)

ClaimZeroFields ==
    {"autoPoints", "teleopPoints", "foulPoints",
     "autoCoralL1", "autoCoralL2", "autoCoralL3", "autoCoralL4", "autoCoralTotal",
     "autoCoralPoints",
     "teleopCoralL1", "teleopCoralL2", "teleopCoralL3", "teleopCoralL4",
     "teleopCoralTotal", "teleopCoralPoints",
     "algaeNet", "algaeProcessor", "algaeTotal", "algaePoints",
     "mobilityCount", "mobilityPoints",
     "deepClimbs", "shallowClimbs", "parks", "endgamePoints",
     "foulCount", "techFoulCount"}

ClaimBonusFields == {"autoBonusAchieved", "coralBonusAchieved", "bargeBonusAchieved"}

\* C12: without a score breakdown the official data of an alliance is its roster and
\* its raw final score, every derived count, point subtotal and foul count is zero
\* and every bonus flag is false; the comparison has an official breakdown total of
\* 0 and a score percentage difference of 0.
C12_NoBreakdownIsAllZero ==
    (phase = "done" /\ tbaMatch.score_breakdown = << >>) =>
        \A a \in ClaimAlliances :
            LET v == ClaimValidation(a)
                keys == tbaMatch.alliances[a].team_keys
            IN  /\ v.tbaData.alliance = a
                /\ v.tbaData.teams = [i \in 1..Len(keys) |-> keys[i].number]
                /\ v.tbaData.totalPoints = tbaMatch.alliances[a].score
                /\ \A f \in ClaimZeroFields : v.tbaData[f] = 0
                /\ \A f \in ClaimBonusFields : v.tbaData[f] = FALSE
                /\ DOMAIN v.tbaData = ClaimZeroFields \cup ClaimBonusFields
                                      \cup {"alliance", "teams", "totalPoints"}
                /\ v.totalTBAPoints = 0
                /\ v.scorePercentDiff10 = 0

\* a payload without breakdown compared with three records that score points
C12_Witness ==
    /\ phase = "done"
    /\ tbaMatch.score_breakdown = << >>
    /\ Len(scoutedRedEntries) = 3
    /\ Res.redAlliance.totalScoutedPoints > 0
    /\ Res.redAlliance.scoreDifference > 0
    /\ Res.redAlliance.tbaData.totalPoints = 50
    /\ Res.redAlliance.tbaData.teams = RedTeams

\* the pairs (scouted value, official value) compareAllianceData compares under the
\* configuration's toggles, the official teleop values after the cumulative
\* subtraction
ClaimComparedPairs(a) ==
    LET v == ClaimValidation(a)
        sc == v.scoutedData
        of == v.tbaData
        tele == [l \in 1..4 |-> ClaimTeleopOnly(a, l)]
    IN  (IF config.checkAutoScoring
         THEN {<<"a1", sc.autoCoralL1, of.autoCoralL1>>, <<"a2", sc.autoCoralL2, of.autoCoralL2>>,
               <<"a3", sc.autoCoralL3, of.autoCoralL3>>, <<"a4", sc.autoCoralL4, of.autoCoralL4>>,
               <<"at", sc.autoCoralTotal, of.autoCoralTotal>>}
         ELSE {})
        \cup
        (IF config.checkTeleopScoring
         THEN {<<"t1", sc.teleopCoralL1, tele[1]>>, <<"t2", sc.teleopCoralL2, tele[2]>>,
               <<"t3", sc.teleopCoralL3, tele[3]>>, <<"t4", sc.teleopCoralL4, tele[4]>>,
               <<"tt", sc.teleopCoralTotal, tele[1] + tele[2] + tele[3] + tele[4]>>}
         ELSE {})
        \cup
        {<<"gn", sc.autoAlgaeNet + sc.teleopAlgaeNet, of.algaeNet>>,
         <<"gp", sc.autoAlgaeProcessor + sc.teleopAlgaeProcessor, of.algaeProcessor>>,
         <<"gt", sc.autoAlgaeNet + sc.teleopAlgaeNet + sc.autoAlgaeProcessor
                 + sc.teleopAlgaeProcessor, of.algaeTotal>>,
         <<"m", sc.autoMobility, of.mobilityCount>>}
        \cup
        (IF config.checkEndgame
         THEN {<<"ed", sc.deepClimbs, of.deepClimbs>>, <<"es", sc.shallowClimbs, of.shallowClimbs>>,
               <<"ep", sc.parks, of.parks>>}
         ELSE {})

ClaimAllMatch(a) ==
    /\ \A p \in ClaimComparedPairs(a) : p[2] = p[3]
    /\ ClaimValidation(a).scoutedData.missingTeams = << >>

ClaimThresholdSetsOf(cfg) ==
    {cfg.thresholds} \cup {cfg.categoryThresholds[c] : c \in DOMAIN cfg.categoryThresholds}

ClaimAbsolutePositive(cfg) ==
    \A th \in ClaimThresholdSetsOf(cfg) :
        th.minorAbsolute > 0 /\ th.warningAbsolute > 0 /\ th.criticalAbsolute > 0

-----------------------------------------------------------------------------
(* The record store and the smart-merge import *)

\* largest number of scouting submissions in one run
MaxSubmits == 1

\* String(alliance).toLowerCase().replace('alliance', '').trim()
normalizeAlliance(a) ==
    IF a = "redAlliance" THEN "red"
    ELSE IF a = "blueAlliance" THEN "blue"
    ELSE a

\* the row lib/dexieDB stores for an entry
entryRow(entry) ==
    [id |-> entry.id,
     eventName |-> entry.data.eventName,
     matchNumber |-> entry.data.matchNumber,
     teamNumber |-> entry.data.selectTeam,
     alliance |-> entry.data.alliance,
     isCorrected |-> entry.data.isCorrected,
     correctionCount |-> entry.data.correctionCount,
     scoutName |-> entry.data.scoutName]

\* a save that adds the row beside a row of the same id
saveScoutingEntry_noOverwrite(st, entry) ==
    IF \E r \in st : r.id = entry.id THEN st ELSE st \cup {entryRow(entry)}

\* saveScoutingEntry (lib/dexieDB): put the row under its id
saveScoutingEntry(st, entry) ==
    {r \in st : r.id # entry.id} \cup {entryRow(entry)}

\* db.scoutingData.delete(id)
deleteRow(st, id) == {r \in st : r.id # id}

\* db.scoutingData.bulkDelete(ids)
bulkDelete(st, ids) == {r \in st : r.id \notin ids}

\* the rows detectConflicts may find for an entry: same event, match and team
matchingRows(st, entry) ==
    {r \in st : /\ r.eventName = entry.data.eventName
                /\ r.matchNumber = entry.data.matchNumber
                /\ r.teamNumber = entry.data.selectTeam}

NoRow == [id |-> << >>]

\* a classification that lets an uncorrected entry replace a corrected row
classify_incomingDecides(existing, entry) ==
    IF existing = NoRow THEN "auto-import"
    ELSE IF ~existing.isCorrected \/ ~entry.data.isCorrected THEN "auto-replace"
    ELSE "needs-review"

\* the decision matrix of detectConflicts
classify(existing, entry) ==
    IF existing = NoRow THEN "auto-import"
    ELSE IF ~existing.isCorrected THEN "auto-replace"
    ELSE "needs-review"

Indices(s) == [i \in 1..Len(s) |-> i]

\* detectConflicts (lib/scoutingDataUtils): existingOf[i] is the row found for the
\* i-th entry, bucketOf[i] the bucket a needs-review entry is put in
detectConflicts(entries, existingOf, bucketOf) ==
    LET indicesOf(class) ==
            SelectSeq(Indices(entries), LAMBDA i : classify(existingOf[i], entries[i]) = class)
        review(bucket) ==
            SelectSeq(indicesOf("needs-review"), LAMBDA i : bucketOf[i] = bucket)
    IN  [autoImport |-> [k \in 1..Len(indicesOf("auto-import")) |->
                            entries[indicesOf("auto-import")[k]]],
         autoReplace |-> [k \in 1..Len(indicesOf("auto-replace")) |->
                            entries[indicesOf("auto-replace")[k]]],
         batchReview |-> [k \in 1..Len(review("batchReview")) |->
                            entries[review("batchReview")[k]]],
         conflicts |-> [k \in 1..Len(review("conflicts")) |->
                            [local |-> existingOf[review("conflicts")[k]],
                             incoming |-> entries[review("conflicts")[k]]]]]

\* for (const entry of conflictResult.autoImport) await saveScoutingEntry(entry)
RECURSIVE saveAll(_, _)
saveAll(st, entries) ==
    IF entries = << >> THEN st
    ELSE saveAll(saveScoutingEntry(st, Head(entries)), Tail(entries))

\* a lookup of the row to replace that ignores the alliance
existingForReplace_noAlliance(st, entry) ==
    {r \in st : /\ r.matchNumber = entry.data.matchNumber
                /\ r.teamNumber = entry.data.selectTeam
                /\ r.eventName = entry.data.eventName}

\* the rows the auto-replace loop may find: same match, team, alliance and event
existingForReplace(st, entry) ==
    {r \in st : /\ r.matchNumber = entry.data.matchNumber
                /\ r.teamNumber = entry.data.selectTeam
                /\ normalizeAlliance(r.alliance) = normalizeAlliance(entry.data.alliance)
                /\ r.eventName = entry.data.eventName}

\* one turn of the auto-replace loop: the stores it may leave
autoReplaceOne(st, entry) ==
    IF existingForReplace(st, entry) = {}
    THEN {saveScoutingEntry(st, entry)}
    ELSE {saveScoutingEntry(deleteRow(st, r.id), entry) : r \in existingForReplace(st, entry)}

\* the auto-replace loop: the stores it may leave
RECURSIVE autoReplaceAll(_, _)
autoReplaceAll(sts, entries) ==
    IF entries = << >> THEN sts
    ELSE autoReplaceAll(UNION {autoReplaceOne(st, Head(entries)) : st \in sts}, Tail(entries))

\* const conflictKey = `${local.matchNumber}-${local.teamNumber}-${local.eventName}`
conflictKey(conflict) ==
    <<conflict.local.matchNumber, conflict.local.teamNumber, conflict.local.eventName>>

\* Map.get: the decisions recorded under a key ({} when there is none)
mapGet(resolutions, key) == {p[2] : p \in {q \in resolutions : q[1] = key}}

\* Map.set
mapSet(resolutions, key, decision) ==
    {p \in resolutions : p[1] # key} \cup {<<key, decision>>}

\* Map.delete
mapDelete(resolutions, key) == {p \in resolutions : p[1] # key}

\* a replace that saves the incoming entry and keeps the local row
applyOne_keepLocal(st, conflict, resolutions) ==
    IF mapGet(resolutions, conflictKey(conflict)) = {"replace"}
    THEN saveScoutingEntry(st, conflict.incoming)
    ELSE st

\* one turn of the loop of applyConflictResolutions
applyOne(st, conflict, resolutions) ==
    IF mapGet(resolutions, conflictKey(conflict)) = {"replace"}
    THEN saveScoutingEntry(deleteRow(st, conflict.local.id), conflict.incoming)
    ELSE st

RECURSIVE applyConflictResolutions(_, _, _)
applyConflictResolutions(st, conflicts, resolutions) ==
    IF conflicts = << >> THEN st
    ELSE applyConflictResolutions(applyOne(st, Head(conflicts), resolutions),
                                  Tail(conflicts), resolutions)

-----------------------------------------------------------------------------
(* The inputs of the import runs *)

ImportEvent == "2025mrcmp"
ImportMatches == {"1", "2", "3"}
ImportTeam == "100"

\* the match the scout of this device is scouting
SubmitMatches == {"1"}

EntryId(m, tag) == <<ImportEvent, m, ImportTeam, tag>>

\* correctionCount of a record: 1 once corrected, 0 standing for undefined
correctionsOf(corrected) == IF corrected THEN 1 ELSE 0

MkRow(m, alliance, corrected) ==
    [id |-> EntryId(m, "a"), eventName |-> ImportEvent, matchNumber |-> m,
     teamNumber |-> ImportTeam, alliance |-> alliance, isCorrected |-> corrected,
     correctionCount |-> correctionsOf(corrected), scoutName |-> "A"]

MkIncoming(m, alliance, corrected, tag, scout) ==
    [id |-> EntryId(m, tag),
     data |-> [eventName |-> ImportEvent, matchNumber |-> m, selectTeam |-> ImportTeam,
               alliance |-> alliance, isCorrected |-> corrected,
               correctionCount |-> correctionsOf(corrected), scoutName |-> scout]]

\* the second match is played on the red alliance only
AlliancesOf(m) == IF m = "1" THEN {"red", "blue"} ELSE {"red"}

\* the record of the third match has been corrected
StoredFlagsOf(m) == IF m = "3" THEN {TRUE} ELSE BOOLEAN

RowsOf(m) == {MkRow(m, a, c) : a \in AlliancesOf(m), c \in StoredFlagsOf(m)}

\* the stores a run starts from: at most one row for a match and team
Stores == {r1 \cup r2 \cup r3 : r1 \in {{}} \cup {{r} : r \in RowsOf("1")},
                                 r2 \in {{}} \cup {{r} : r \in RowsOf("2")},
                                 r3 \in {{}} \cup {{r} : r \in RowsOf("3")}}

\* the alliance as the other device spells it
Spelled(a) == IF a = "blue" THEN "blueAlliance" ELSE a

\* the other device has corrected no record but that of the first match
IncomingFlagsOf(m) == IF m = "1" THEN BOOLEAN ELSE {FALSE}

IncomingOf(m) ==
    {MkIncoming(m, Spelled(a), c, tag, "B") :
        a \in AlliancesOf(m), c \in IncomingFlagsOf(m),
        tag \in (IF m = "1" THEN {"a", "b"} ELSE {"b"})}

\* the uploaded batches: at most one entry for a match and team
Batches == {b1 \o b2 \o b3 : b1 \in {<< >>} \cup {<<e>> : e \in IncomingOf("1")},
                             b2 \in {<< >>} \cup {<<e>> : e \in IncomingOf("2")},
                             b3 \in {<< >>} \cup {<<e>> : e \in IncomingOf("3")}}

\* the rows detectConflicts may report for the entries of a batch
ExistingChoices(st, entries) ==
    {f \in [1..Len(entries) -> st \cup {NoRow}] :
        \A i \in 1..Len(entries) :
            IF matchingRows(st, entries[i]) = {} THEN f[i] = NoRow
            ELSE f[i] \in matchingRows(st, entries[i])}

BucketChoices(entries) == [1..Len(entries) -> {"batchReview", "conflicts"}]

-----------------------------------------------------------------------------
(* The import, its dialogs and the submission of a scouted entry *)

InitImport ==
    /\ phase = "idle"
    /\ config = << >>
    /\ category = "none"
    /\ scoutedValue = 0
    /\ tbaValue = 0
    /\ discrepancy = << >>
    /\ scoutedRedEntries = << >>
    /\ scoutedBlueEntries = << >>
    /\ tbaMatch = << >>
    /\ result = << >>
    /\ store \in Stores
    /\ incoming \in Batches
    /\ conflictResult = NoConflictResult
    /\ showDialog = "none"
    /\ batchReviewEntries = << >>
    /\ pendingConflicts = << >>
    /\ currentConflicts = << >>
    /\ currentConflictIndex = 0
    /\ conflictResolutions = {}
    /\ resolutionHistory = << >>
    /\ pendingSubmission = << >>
    /\ submitsLeft = MaxSubmits
    /\ lastOp = "none"
    /\ EventIdle
    /\ ReplaceIdle
    /\ CombinedIdle
    /\ DisplayIdle
    /\ ApplyIdle

\* the smart-merge branch of handleScoutingDataUpload and what the uploader does
\* with its result; saveScoutingDataFromFountain does the same
smartMerge(op) ==
    \E existingOf \in ExistingChoices(store, incoming), bucketOf \in BucketChoices(incoming) :
        LET cr == detectConflicts(incoming, existingOf, bucketOf)
        IN  /\ conflictResult' = cr
            /\ store' \in autoReplaceAll({saveAll(store, cr.autoImport)}, cr.autoReplace)
            /\ IF cr.batchReview # << >>
               THEN /\ batchReviewEntries' = cr.batchReview
                    /\ pendingConflicts' = cr.conflicts
                    /\ showDialog' = "batch"
                    /\ UNCHANGED <<currentConflicts, currentConflictIndex, conflictResolutions>>
               ELSE IF cr.conflicts # << >>
               THEN /\ currentConflicts' = cr.conflicts
                    /\ currentConflictIndex' = 0
                    /\ conflictResolutions' = {}
                    /\ showDialog' = "conflict"
                    /\ UNCHANGED <<batchReviewEntries, pendingConflicts>>
               ELSE UNCHANGED <<batchReviewEntries, pendingConflicts, showDialog,
                                currentConflicts, currentConflictIndex, conflictResolutions>>
            /\ incoming' = << >>
            /\ lastOp' = op
            /\ UNCHANGED <<resolutionHistory, pendingSubmission, submitsLeft>>
            /\ UNCHANGED <<engineVars, eventVars, replaceVars, applyVars, displayVars, combinedVars>>

\* handleUpload of the JSON uploader: handleScoutingDataUpload(jsonData, mode)
UploadJSON(mode) ==
    /\ showDialog = "none"
    /\ incoming # << >>
    /\ CASE mode = "overwrite" ->
              /\ store' = saveAll({}, incoming)
              /\ incoming' = << >>
              /\ lastOp' = "overwrite"
              /\ UNCHANGED <<conflictResult, showDialog, batchReviewEntries, pendingConflicts,
                             currentConflicts, currentConflictIndex, conflictResolutions,
                             resolutionHistory, pendingSubmission, submitsLeft>>
              /\ UNCHANGED <<engineVars, eventVars, replaceVars, applyVars, displayVars, combinedVars>>
         [] mode = "append" ->
              /\ store' = saveAll(store, incoming)
              /\ incoming' = << >>
              /\ lastOp' = "append"
              /\ UNCHANGED <<conflictResult, showDialog, batchReviewEntries, pendingConflicts,
                             currentConflicts, currentConflictIndex, conflictResolutions,
                             resolutionHistory, pendingSubmission, submitsLeft>>
              /\ UNCHANGED <<engineVars, eventVars, replaceVars, applyVars, displayVars, combinedVars>>
         [] mode = "smart-merge" -> smartMerge("smart-merge")

\* saveScoutingDataFromFountain of the fountain code scanner
ScanFountainCode ==
    /\ showDialog = "none"
    /\ incoming # << >>
    /\ smartMerge("scan")

\* replace-all for one batch-review record: the stores it may leave
replaceOne(st, entry) ==
    IF matchingRows(st, entry) = {}
    THEN {saveScoutingEntry(st, entry)}
    ELSE {saveScoutingEntry(deleteRow(st, r.id), entry) : r \in matchingRows(st, entry)}

\* replace-all over the batch-review bucket: the stores it may leave
RECURSIVE replaceAll(_, _)
replaceAll(sts, entries) ==
    IF entries = << >> THEN sts
    ELSE replaceAll(UNION {replaceOne(st, Head(entries)) : st \in sts}, Tail(entries))

\* review-each: the conflict queues the batch-review bucket may be demoted into
demoted(st, entries) ==
    {[k \in 1..Len(entries) |-> [local |-> f[k], incoming |-> entries[k]]] :
        f \in {g \in ExistingChoices(st, entries) : \A k \in 1..Len(entries) : g[k] # NoRow}}

\* a batch decision that drops the conflicts which were pending
queueAfterBatch_dropPending(decision, pending, fromBatch) ==
    IF decision = "review-each" THEN fromBatch ELSE << >>

\* the conflict queue after a batch decision
queueAfterBatch(decision, pending, fromBatch) ==
    IF decision = "review-each" THEN pending \o fromBatch ELSE pending

\* handleBatchReviewDecision(batchReviewEntries, pendingConflicts, decision) of
\* useConflictResolution, and the uploader's wrapper around it
BatchReviewDecision(decision) ==
    /\ showDialog = "batch"
    /\ store' \in (IF decision = "replace-all" THEN replaceAll({store}, batchReviewEntries)
                   ELSE {store})
    /\ \E fromBatch \in demoted(store, batchReviewEntries) :
          LET queue == queueAfterBatch(decision, pendingConflicts, fromBatch)
          IN  IF queue # << >>
              THEN /\ currentConflicts' = queue
                   /\ currentConflictIndex' = 0
                   /\ conflictResolutions' = {}
                   /\ resolutionHistory' = << >>
                   /\ showDialog' = "conflict"
                   /\ UNCHANGED <<batchReviewEntries, pendingConflicts>>
              ELSE /\ showDialog' = "none"
                   /\ batchReviewEntries' = << >>
                   /\ pendingConflicts' = << >>
                   /\ UNCHANGED <<currentConflicts, currentConflictIndex,
                                  conflictResolutions, resolutionHistory>>
    /\ lastOp' = decision
    /\ UNCHANGED <<incoming, conflictResult, pendingSubmission, submitsLeft>>
    /\ UNCHANGED <<engineVars, eventVars, replaceVars, applyVars, displayVars, combinedVars>>

\* an index that moves on by two conflicts
nextConflictIndex_skipOne(index) == index + 2

\* the conflict shown after a decision
nextConflictIndex(index) == index + 1

\* handleConflictResolution(action) of useConflictResolution
ResolveConflict(action) ==
    /\ showDialog = "conflict"
    /\ currentConflictIndex < Len(currentConflicts)
    /\ LET conflict == currentConflicts[currentConflictIndex + 1]
           resolutions == mapSet(conflictResolutions, conflictKey(conflict), action)
       IN  IF nextConflictIndex(currentConflictIndex) >= Len(currentConflicts)
           THEN /\ store' = applyConflictResolutions(store, currentConflicts, resolutions)
                /\ showDialog' = "none"
                /\ currentConflicts' = << >>
                /\ currentConflictIndex' = 0
                /\ conflictResolutions' = {}
                /\ resolutionHistory' = << >>
                /\ lastOp' = action
           ELSE /\ conflictResolutions' = resolutions
                /\ resolutionHistory' =
                       Append(resolutionHistory,
                              [index |-> currentConflictIndex, key |-> conflictKey(conflict)])
                /\ currentConflictIndex' = nextConflictIndex(currentConflictIndex)
                /\ lastOp' = action
                /\ UNCHANGED <<store, showDialog, currentConflicts>>
    /\ UNCHANGED <<incoming, conflictResult, batchReviewEntries, pendingConflicts,
                   pendingSubmission, submitsLeft>>
    /\ UNCHANGED <<engineVars, eventVars, replaceVars, applyVars, displayVars, combinedVars>>

\* an undo that rewinds to the first conflict
undoIndex_toFirst(history) == 0

\* the conflict index an undo restores
undoIndex(history) == history[Len(history)].index

\* an undo that keeps the decision of the step it rewinds
undoResolutions_keep(resolutions, history) == resolutions

\* the decisions left after an undo
undoResolutions(resolutions, history) == mapDelete(resolutions, history[Len(history)].key)

\* handleUndo of useConflictResolution
Undo ==
    /\ showDialog = "conflict"
    /\ IF resolutionHistory = << >>
       THEN UNCHANGED <<currentConflictIndex, conflictResolutions, resolutionHistory>>
       ELSE /\ currentConflictIndex' = undoIndex(resolutionHistory)
            /\ conflictResolutions' = undoResolutions(conflictResolutions, resolutionHistory)
            /\ resolutionHistory' = SubSeq(resolutionHistory, 1, Len(resolutionHistory) - 1)
    /\ lastOp' = "undo"
    /\ UNCHANGED <<store, incoming, conflictResult, showDialog, batchReviewEntries,
                   pendingConflicts, currentConflicts, pendingSubmission, submitsLeft>>
    /\ UNCHANGED <<engineVars, eventVars, replaceVars, applyVars, displayVars, combinedVars>>

\* the rows handleSubmit finds: same match, team, alliance and event
existingEntries(st, inputs) ==
    {r \in st : /\ r.matchNumber = inputs.matchNumber
                /\ r.teamNumber = inputs.selectTeam
                /\ r.alliance = inputs.alliance
                /\ r.eventName = inputs.eventName}

\* handleSubmit of the endgame page
SubmitEntry(m, alliance, tag, isRescoutMode) ==
    /\ showDialog = "none"
    /\ submitsLeft > 0
    /\ LET entryWithId == MkIncoming(m, alliance, FALSE, tag, "S")
           idsToDelete == {r.id : r \in existingEntries(store, entryWithId.data)}
       IN  IF isRescoutMode /\ idsToDelete # {}
           THEN /\ pendingSubmission' =
                       <<[entryWithId |-> entryWithId, idsToDelete |-> idsToDelete]>>
                /\ showDialog' = "correction"
                /\ lastOp' = "rescout"
                /\ UNCHANGED store
           ELSE /\ store' = saveScoutingEntry(bulkDelete(store, idsToDelete), entryWithId)
                /\ lastOp' = IF isRescoutMode THEN "rescout" ELSE "submit"
                /\ UNCHANGED <<pendingSubmission, showDialog>>
    /\ submitsLeft' = submitsLeft - 1
    /\ UNCHANGED <<incoming, conflictResult, batchReviewEntries, pendingConflicts,
                   currentConflicts, currentConflictIndex, conflictResolutions,
                   resolutionHistory>>
    /\ UNCHANGED <<engineVars, eventVars, replaceVars, applyVars, displayVars, combinedVars>>

\* the entry handleConfirmCorrection saves
correctedEntry(entryWithId) ==
    [entryWithId EXCEPT !.data.isCorrected = TRUE, !.data.correctionCount = 1]

\* handleConfirmCorrection of the endgame page
ConfirmCorrection ==
    /\ showDialog = "correction"
    /\ pendingSubmission # << >>
    /\ store' = saveScoutingEntry(bulkDelete(store, pendingSubmission[1].idsToDelete),
                                  correctedEntry(pendingSubmission[1].entryWithId))
    /\ showDialog' = "none"
    /\ pendingSubmission' = << >>
    /\ lastOp' = "confirm-correction"
    /\ UNCHANGED <<incoming, conflictResult, batchReviewEntries, pendingConflicts,
                   currentConflicts, currentConflictIndex, conflictResolutions,
                   resolutionHistory, submitsLeft>>
    /\ UNCHANGED <<engineVars, eventVars, replaceVars, applyVars, displayVars, combinedVars>>

\* handleCancelCorrection of the endgame page
CancelCorrection ==
    /\ showDialog = "correction"
    /\ showDialog' = "none"
    /\ pendingSubmission' = << >>
    /\ lastOp' = "cancel-correction"
    /\ UNCHANGED <<store, incoming, conflictResult, batchReviewEntries, pendingConflicts,
                   currentConflicts, currentConflictIndex, conflictResolutions,
                   resolutionHistory, submitsLeft>>
    /\ UNCHANGED <<engineVars, eventVars, replaceVars, applyVars, displayVars, combinedVars>>

NextImport ==
    \/ \E mode \in {"overwrite", "append", "smart-merge"} : UploadJSON(mode)
    \/ ScanFountainCode
    \/ \E decision \in {"replace-all", "skip-all", "review-each"} : BatchReviewDecision(decision)
    \/ \E action \in {"replace", "skip"} : ResolveConflict(action)
    \/ Undo
    \/ \E m \in SubmitMatches, tag \in {"a", "s"}, isRescoutMode \in BOOLEAN :
          \E alliance \in AlliancesOf(m) : SubmitEntry(m, alliance, tag, isRescoutMode)
    \/ ConfirmCorrection
    \/ CancelCorrection

SpecImport == InitImport /\ [][NextImport]_vars

-----------------------------------------------------------------------------
(* Claims about the import *)

\* the step is a smart-merge import of the batch
ClaimSmartMergeStep == incoming # << >> /\ incoming' = << >> /\ lastOp' \in {"smart-merge", "scan"}

\* the incoming entries of a list of conflicts
ClaimIncomingOf(conflicts) == [k \in 1..Len(conflicts) |-> conflicts[k].incoming]

\* the buckets of a classification that hold the entry
ClaimBucketsOf(cr, e) ==
    {b \in {"autoImport", "autoReplace", "batchReview"} : Includes(cr[b], e)}
        \cup (IF Includes(ClaimIncomingOf(cr.conflicts), e) THEN {"conflicts"} ELSE {})

C15_AutoReplaceLeavesOneRecord ==
    [][ClaimSmartMergeStep =>
        \A i \in 1..Len(conflictResult'.autoReplace) :
            LET e == conflictResult'.autoReplace[i]
            IN  Cardinality(matchingRows(store, e)) = 1 =>
                    matchingRows(store', e) = {entryRow(e)}
       ]_vars

\* the step applies the decisions of the conflict dialog
ClaimApplyStep == showDialog = "conflict" /\ showDialog' = "none"

\* the decisions in force when they are applied: the recorded ones and the one
\* just made for the last conflict
ClaimDecisions ==
    mapSet(conflictResolutions, conflictKey(currentConflicts[Len(currentConflicts)]), lastOp')

\* the conflicts the user decided to replace
ClaimReplaced ==
    {currentConflicts[i] : i \in {j \in 1..Len(currentConflicts) :
        mapGet(ClaimDecisions, conflictKey(currentConflicts[j])) = {"replace"}}}

\* the user chose to give the stored record up in the conflict dialog
ClaimGivenUp(r) ==
    /\ ClaimApplyStep
    /\ \E c \in ClaimReplaced : conflictKey(c) = <<r.matchNumber, r.teamNumber, r.eventName>>

\* the other explicit choices of the user (replace-all in batch review, overwrite
\* upload, confirmed re-scout correction) and the operations the claim does not
\* speak of (append upload, submission in re-scout mode)
ClaimExplicitOrOther ==
    {"replace-all", "overwrite", "confirm-correction", "append", "rescout"}

\* C16: whatever the store, a smart-merge import (JSON or QR), a step of conflict
\* resolution or an ordinary scouting submission never deletes or replaces a stored
\* record with isCorrected = true; only an explicit choice of the user (replace in
\* the conflict dialog, replace-all in batch review, overwrite upload, confirmed
\* re-scout correction) does.
C16_CorrectedOnlyExplicitlyReplaced ==
    [][\A r \in store :
          (r.isCorrected /\ r \notin store') =>
              (ClaimGivenUp(r) \/ lastOp' \in ClaimExplicitOrOther)
      ]_vars

\* C17: when the decisions of the conflict dialog are applied, a conflict resolved
\* with replace has its local record deleted and its incoming record stored
\* unchanged, with the incoming record's own correction flag; a conflict resolved
\* with skip changes nothing: every other record stays and, when every decision
\* is skip, the store is unchanged.
C17_ResolveReplaceAndSkip ==
    [][ClaimApplyStep =>
        /\ \A c \in ClaimReplaced :
              /\ entryRow(c.incoming) \in store'
              /\ \A r \in store' :
                    r.id \in {c.local.id, c.incoming.id} => r = entryRow(c.incoming)
        /\ \A r \in store :
              (\A c \in ClaimReplaced : r.id \notin {c.local.id, c.incoming.id}) => r \in store'
        /\ store' \subseteq store \cup {entryRow(c.incoming) : c \in ClaimReplaced}
        /\ ClaimReplaced = {} => store' = store
       ]_vars

\* a corrected local record replaced by an uncorrected incoming record of another
\* id, after a skip for the other conflict
C17_Witness ==
    /\ lastOp = "replace"
    /\ showDialog = "none"
    /\ Len(conflictResult.conflicts) = 2
    /\ \E i \in 1..2 :
          LET c == conflictResult.conflicts[i]
          IN  /\ c.local.isCorrected /\ ~c.incoming.data.isCorrected
              /\ c.local.id # c.incoming.id
              /\ entryRow(c.incoming) \in store
              /\ c.local \notin store
    /\ \E i \in 1..2 : conflictResult.conflicts[i].local \in store

\* the key of the i-th conflict of the dialog
ClaimKeyAt(i) == conflictKey(currentConflicts[i])

\* every decision but that of the i-th conflict is the same after the step
ClaimOthersKept(i) ==
    \A j \in (1..Len(currentConflicts)) \ {i} :
        mapGet(conflictResolutions', ClaimKeyAt(j)) = mapGet(conflictResolutions, ClaimKeyAt(j))

\* C18: in the conflict dialog a decision is recorded for the current conflict and
\* moves on by one conflict; an undo goes back by exactly one conflict, to the
\* index before the last decision, and removes that decision and no other, so the
\* conflict can be decided again; an undo with no decision made changes nothing;
\* the decisions applied at the end are the ones recorded last.
C18_UndoRewindsOneStep ==
    [][/\ showDialog = "conflict" =>
              /\ currentConflictIndex < Len(currentConflicts)
              /\ Len(resolutionHistory) = currentConflictIndex
              /\ \A j \in 1..Len(currentConflicts) :
                    (mapGet(conflictResolutions, ClaimKeyAt(j)) # {}) <=> j <= currentConflictIndex
       /\ (lastOp' = "undo" /\ resolutionHistory # << >>) =>
              /\ currentConflictIndex' = currentConflictIndex - 1
              /\ currentConflictIndex' = resolutionHistory[Len(resolutionHistory)].index
              /\ mapGet(conflictResolutions', ClaimKeyAt(currentConflictIndex' + 1)) = {}
              /\ ClaimOthersKept(currentConflictIndex' + 1)
              /\ Len(resolutionHistory') = Len(resolutionHistory) - 1
              /\ UNCHANGED <<store, currentConflicts, showDialog>>
       /\ (lastOp' = "undo" /\ resolutionHistory = << >>) =>
              UNCHANGED <<store, currentConflicts, showDialog, currentConflictIndex,
                          conflictResolutions, resolutionHistory>>
       /\ (showDialog = "conflict" /\ showDialog' = "conflict" /\ lastOp' \in {"replace", "skip"}) =>
              /\ currentConflictIndex' = currentConflictIndex + 1
              /\ mapGet(conflictResolutions', ClaimKeyAt(currentConflictIndex + 1)) = {lastOp'}
              /\ ClaimOthersKept(currentConflictIndex + 1)
              /\ UNCHANGED <<store, currentConflicts>>
       /\ ClaimApplyStep =>
              \A j \in 1..Len(currentConflicts) :
                 LET c == currentConflicts[j]
                     decided == IF j = Len(currentConflicts) THEN {lastOp'}
                                ELSE mapGet(conflictResolutions, ClaimKeyAt(j))
                 IN  /\ decided = {"replace"} => entryRow(c.incoming) \in store'
                     /\ decided = {"skip"} => store' \cap matchingRows(store \cup store', c.incoming)
                                                = matchingRows(store, c.incoming)
      ]_vars

\* three conflicts: two decisions made, the second one taken back
C18_Witness ==
    /\ showDialog = "conflict"
    /\ lastOp = "undo"
    /\ Len(currentConflicts) = 3
    /\ currentConflictIndex = 1
    /\ Len(resolutionHistory) = 1
    /\ mapGet(conflictResolutions, ClaimKeyAt(1)) = {"replace"}
    /\ mapGet(conflictResolutions, ClaimKeyAt(2)) = {}

\* the step is a decision of the batch-review dialog
ClaimBatchStep == showDialog = "batch" /\ lastOp' \in {"replace-all", "skip-all", "review-each"}

\* C19: replace-all stores every record of the batch-review bucket in place of the
\* stored record of its key, and skip-all leaves every one of them out, in one step
\* and none of them enters the conflict dialog;
\* review-each puts every record of the bucket into the conflict queue and stores
\* nothing; after each of the three the conflicts that were pending beside the batch
\* are shown in the conflict dialog, from the first one and with no decision made.
C19_BatchReviewDecisions ==
    [][ClaimBatchStep =>
        LET queued == IF showDialog' = "conflict" THEN ClaimIncomingOf(currentConflicts') ELSE << >>
            batch == {batchReviewEntries[i] : i \in 1..Len(batchReviewEntries)}
        IN  /\ lastOp' = "replace-all" =>
                  /\ \A e \in batch : entryRow(e) \in store' /\ ~Includes(queued, e)
                  /\ \A e \in batch : Cardinality(matchingRows(store, e)) = 1 =>
                                           matchingRows(store', e) = {entryRow(e)}
            /\ lastOp' = "skip-all" =>
                  /\ store' = store
                  /\ \A e \in batch : ~Includes(queued, e)
            /\ lastOp' = "review-each" =>
                  /\ store' = store
                  /\ \A e \in batch : Includes(queued, e)
            /\ \A i \in 1..Len(pendingConflicts) : Includes(currentConflicts', pendingConflicts[i])
            /\ showDialog' = (IF queued = << >> THEN "none" ELSE "conflict")
            /\ showDialog' = "conflict" =>
                  /\ currentConflictIndex' = 0
                  /\ conflictResolutions' = {}
                  /\ Len(currentConflicts') =
                        Len(pendingConflicts)
                            + (IF lastOp' = "review-each" THEN Len(batchReviewEntries) ELSE 0)
       ]_vars

\* replace-all for a batch of two records with one conflict pending beside it
C19_Witness ==
    /\ lastOp = "replace-all"
    /\ showDialog = "conflict"
    /\ Len(batchReviewEntries) = 2
    /\ Len(currentConflicts) = 1
    /\ currentConflicts = pendingConflicts
    /\ \A i \in 1..2 : entryRow(batchReviewEntries[i]) \in store

-----------------------------------------------------------------------------
(* validateSingleMatch and validateEventMatches of useMatchValidation *)

\* largest number of official matches of the event
MaxMatches == 3

\* largest match number
MaxNumber == 2

\* qualification and playoff matches
CompLevels == {"qm", "sf"}

\* an official match of the event and whether the device holds scouted data for
\* its match number
MkEventMatch(n, level, scouted) == [match_number |-> n, comp_level |-> level, scouted |-> scouted]

\* the lists of official matches: distinct matches in any order; the scouted
\* records are found by match number alone
EventMatchLists ==
    UNION {{l \in [1..k -> {MkEventMatch(n, lv, b) : n \in 1..MaxNumber, lv \in CompLevels,
                                                    b \in BOOLEAN}] :
               \A i, j \in 1..k :
                   /\ i # j => <<l[i].match_number, l[i].comp_level>>
                                  # <<l[j].match_number, l[j].comp_level>>
                   /\ l[i].match_number = l[j].match_number => l[i].scouted = l[j].scouted} :
           k \in 0..MaxMatches}

\* the match numbers the store holds scouted records for
ScoutedNumbers(matches) ==
    {matches[i].match_number : i \in {k \in 1..Len(matches) : matches[k].scouted}}

\* validateMatch, as far as the hook looks at its result
validationResultOf(matchNumber, match) ==
    [matchNumber |-> matchNumber, matchKey |-> <<match.comp_level, match.match_number>>]

\* results.sort((a, b) => parseInt(a.matchNumber) - parseInt(b.matchNumber))
RECURSIVE sortByMatchNumber(_)
sortByMatchNumber(rs) ==
    IF rs = << >> THEN << >>
    ELSE LET least == CHOOSE i \in 1..Len(rs) :
                          /\ \A j \in 1..Len(rs) : rs[i].matchNumber <= rs[j].matchNumber
                          /\ \A j \in 1..(i - 1) : rs[j].matchNumber # rs[i].matchNumber
         IN  <<rs[least]>> \o
             sortByMatchNumber(SubSeq(rs, 1, least - 1) \o SubSeq(rs, least + 1, Len(rs)))

\* storeValidationResult: put under the id `${eventKey}_${tbaMatch.key}`
storeValidationResult(stored, r) ==
    {q \in stored : q.matchKey # r.matchKey} \cup {r}

\* a test that never finds the scouted data missing
noScoutedData_never(scouted) == FALSE

\* redEntries.length === 0 && blueEntries.length === 0
noScoutedData(scouted) == ~scouted

\* the points of one validation at which a call may throw
Failures == {"none", "fetch", "validate", "store"}

\* a turn that counts the match as validated only once its result is stored
successAfter_countStored(count, scouted, failure) ==
    IF scouted /\ failure = "none" THEN count + 1 ELSE count

\* successCount after a turn of the loop: successCount++ follows validateMatch
successAfter(count, scouted, failure) ==
    IF scouted /\ failure \in {"none", "store"} THEN count + 1 ELSE count

\* skippedCount after a turn of the loop: no scouted data, or the catch block
skippedAfter(count, scouted, failure) ==
    IF ~scouted \/ failure # "none" THEN count + 1 ELSE count

\* a lookup of the official match by its number alone
findOfficialMatch_anyLevel(matches, matchNumber) ==
    {m \in {matches[i] : i \in 1..Len(matches)} : m.match_number = matchNumber}

\* tbaMatches.find(m => String(m.match_number) === matchNumber && m.comp_level === 'qm')
findOfficialMatch(matches, matchNumber) ==
    {m \in {matches[i] : i \in 1..Len(matches)} :
        m.match_number = matchNumber /\ m.comp_level = "qm"}

\* a loop over the qualification matches only
loopMatches_qualification(matches) == SelectSeq(matches, LAMBDA m : m.comp_level = "qm")

\* the matches the loop of validateEventMatches goes through
loopMatches(matches) == matches

InitEvent ==
    /\ phase = "idle"
    /\ config = << >>
    /\ category = "none"
    /\ scoutedValue = 0
    /\ tbaValue = 0
    /\ discrepancy = << >>
    /\ scoutedRedEntries = << >>
    /\ scoutedBlueEntries = << >>
    /\ tbaMatch = << >>
    /\ result = << >>
    /\ ImportIdle
    /\ officialMatches \in EventMatchLists
    /\ tbaMatches = << >>
    /\ isValidating = FALSE
    /\ progress = << >>
    /\ loopIndex = 0
    /\ results = << >>
    /\ successCount = 0
    /\ skippedCount = 0
    /\ validationResults = << >>
    /\ validationError = << >>
    /\ visited = << >>
    /\ toast = << >>
    /\ storedResults = {}
    /\ returned = << >>
    /\ ReplaceIdle
    /\ CombinedIdle
    /\ DisplayIdle
    /\ ApplyIdle

\* validateSingleMatch(matchNumber); failure is the call that throws
ValidateSingleMatch(matchNumber, failure) ==
    /\ ~isValidating
    /\ LET scouted == matchNumber \in ScoutedNumbers(officialMatches)
           found == findOfficialMatch(officialMatches, matchNumber)
       IN  IF failure = "fetch"
           THEN /\ validationError' = <<"Validation failed">>
                /\ toast' = <<[kind |-> "error"]>>
                /\ returned' = <<[matchNumber |-> matchNumber, value |-> << >>]>>
                /\ UNCHANGED <<storedResults, validationResults>>
           ELSE IF noScoutedData(scouted)
           THEN /\ validationError' = << >>
                /\ toast' = <<[kind |-> "warning"]>>
                /\ returned' = <<[matchNumber |-> matchNumber, value |-> << >>]>>
                /\ UNCHANGED <<storedResults, validationResults>>
           ELSE IF found = {}
           THEN /\ validationError' = << >>
                /\ toast' = <<[kind |-> "warning"]>>
                /\ returned' = <<[matchNumber |-> matchNumber, value |-> << >>]>>
                /\ UNCHANGED <<storedResults, validationResults>>
           ELSE IF failure \in {"validate", "store"}
           THEN /\ validationError' = <<"Validation failed">>
                /\ toast' = <<[kind |-> "error"]>>
                /\ returned' = <<[matchNumber |-> matchNumber, value |-> << >>]>>
                /\ UNCHANGED <<storedResults, validationResults>>
           ELSE \E match \in found :
                   LET r == validationResultOf(matchNumber, match)
                   IN  /\ validationError' = << >>
                       /\ storedResults' = storeValidationResult(storedResults, r)
                       /\ validationResults' =
                              sortByMatchNumber(
                                  Append(SelectSeq(validationResults,
                                                   LAMBDA q : q.matchNumber # matchNumber), r))
                       /\ returned' = <<[matchNumber |-> matchNumber, value |-> <<r>>]>>
                       /\ UNCHANGED toast
    /\ UNCHANGED <<officialMatches, tbaMatches, isValidating, progress, loopIndex, results,
                   successCount, skippedCount, visited>>
    /\ UNCHANGED <<engineVars, importVars, replaceVars, applyVars, displayVars, combinedVars>>

\* validateEventMatches up to the loop: the official matches are fetched
StartValidation(fetched) ==
    /\ ~isValidating
    /\ tbaMatches = << >>
    /\ IF ~fetched
       THEN /\ validationError' = <<"Validation failed">>
            /\ toast' = <<[kind |-> "error"]>>
            /\ UNCHANGED <<tbaMatches, isValidating, progress, loopIndex, results,
                           successCount, skippedCount, visited>>
       ELSE IF officialMatches = << >>
       THEN /\ validationError' = << >>
            /\ toast' = <<[kind |-> "warning"]>>
            /\ UNCHANGED <<tbaMatches, isValidating, progress, loopIndex, results,
                           successCount, skippedCount, visited>>
       ELSE /\ validationError' = << >>
            /\ tbaMatches' = loopMatches(officialMatches)
            /\ isValidating' = TRUE
            /\ progress' = <<[current |-> 0, total |-> Len(loopMatches(officialMatches)),
                              currentMatch |-> "", phase |-> "fetching-scouted"]>>
            /\ loopIndex' = 0
            /\ results' = << >>
            /\ successCount' = 0
            /\ skippedCount' = 0
            /\ visited' = << >>
            /\ UNCHANGED toast
    /\ UNCHANGED <<officialMatches, validationResults, storedResults, returned>>
    /\ UNCHANGED <<engineVars, importVars, replaceVars, applyVars, displayVars, combinedVars>>

\* one turn of the loop of validateEventMatches; failure is the call that throws
ValidateNextMatch(failure) ==
    /\ isValidating
    /\ loopIndex < Len(tbaMatches)
    /\ LET match == tbaMatches[loopIndex + 1]
           fetchedData == ~noScoutedData(match.scouted) /\ failure # "fetch"
           validated == fetchedData /\ failure # "validate"
           r == validationResultOf(match.match_number, match)
       IN  /\ visited' = Append(visited, <<match.comp_level, match.match_number>>)
           /\ progress' = <<[current |-> loopIndex + 1, total |-> Len(tbaMatches),
                             currentMatch |-> match.match_number,
                             phase |-> IF validated THEN "storing" ELSE "validating"]>>
           /\ results' = IF validated THEN Append(results, r) ELSE results
           /\ storedResults' = IF validated /\ failure # "store"
                               THEN storeValidationResult(storedResults, r)
                               ELSE storedResults
           /\ successCount' = successAfter(successCount, match.scouted, failure)
           /\ skippedCount' = skippedAfter(skippedCount, match.scouted, failure)
    /\ loopIndex' = loopIndex + 1
    /\ UNCHANGED <<officialMatches, tbaMatches, isValidating, validationResults,
                   validationError, toast, returned>>
    /\ UNCHANGED <<engineVars, importVars, replaceVars, applyVars, displayVars, combinedVars>>

\* validateEventMatches after the loop: the results are published
FinishValidation ==
    /\ isValidating
    /\ loopIndex = Len(tbaMatches)
    /\ validationResults' = sortByMatchNumber(results)
    /\ toast' = <<[kind |-> "success", validated |-> successCount, skipped |-> skippedCount]>>
    /\ isValidating' = FALSE
    /\ progress' = << >>
    /\ UNCHANGED <<officialMatches, tbaMatches, loopIndex, results, successCount,
                   skippedCount, validationError, visited, storedResults, returned>>
    /\ UNCHANGED <<engineVars, importVars, replaceVars, applyVars, displayVars, combinedVars>>

NextEvent ==
    \/ \E n \in 1..MaxNumber, failure \in Failures : ValidateSingleMatch(n, failure)
    \/ \E fetched \in BOOLEAN : StartValidation(fetched)
    \/ \E failure \in Failures : ValidateNextMatch(failure)
    \/ FinishValidation

SpecEvent == InitEvent /\ [][NextEvent]_vars

\* C20: the batch validation visits every official match of the event exactly
\* once, in order; a failure while fetching, validating or storing one match does
\* not end the loop; when the loop has ended every official match has been counted
\* exactly once, as validated or as skipped: validated + skipped = number of
\* official matches.
C20_EveryMatchCountedOnce ==
    (~isValidating /\ toast # << >> /\ toast[1].kind = "success") =>
        /\ visited = [i \in 1..Len(officialMatches) |->
                         <<officialMatches[i].comp_level, officialMatches[i].match_number>>]
        /\ toast[1].validated + toast[1].skipped = Len(officialMatches)

\* the official matches of the event
ClaimOfficial == {officialMatches[i] : i \in 1..Len(officialMatches)}

\* the match number has scouted records and an official match
ClaimHasBoth(n) ==
    /\ n \in ScoutedNumbers(officialMatches)
    /\ \E m \in ClaimOfficial : m.match_number = n

\* the match numbers of the official matches without scouted records
ClaimUnscouted == {i \in 1..Len(officialMatches) : ~officialMatches[i].scouted}

\* C21: a match number without any official match or without any scouted record
\* never gets a validation result: validateSingleMatch returns null for it, the
\* batch validation counts each official match without scouted records as skipped,
\* and neither the stored results nor the result list hold a result for it (so
\* none with status 'passed').
C21_NoDataNoResult ==
    /\ \A r \in storedResults : ClaimHasBoth(r.matchNumber)
    /\ \A i \in 1..Len(validationResults) : ClaimHasBoth(validationResults[i].matchNumber)
    /\ \A i \in 1..Len(results) : ClaimHasBoth(results[i].matchNumber)
    /\ returned # << >> =>
          (~ClaimHasBoth(returned[1].matchNumber) => returned[1].value = << >>)
    /\ (~isValidating /\ toast # << >> /\ toast[1].kind = "success") =>
          toast[1].skipped >= Cardinality(ClaimUnscouted)

\* a finished batch validation that skipped a match without scouted records and
\* validated another one, and a single validation that returned null
C21_Witness ==
    /\ ~isValidating
    /\ toast # << >> /\ toast[1].kind = "success"
    /\ toast[1].skipped = 1 /\ toast[1].validated = 1
    /\ Cardinality(ClaimUnscouted) = 1
    /\ Len(validationResults) = 1
    /\ returned # << >> /\ returned[1].value = << >>
    /\ ~ClaimHasBoth(returned[1].matchNumber)

\* every result held anywhere by the validation hook
ClaimAllResults ==
    storedResults \cup {validationResults[i] : i \in 1..Len(validationResults)}
                  \cup {results[i] : i \in 1..Len(results)}

\* C30: batch validation and single-match validation agree: the scouted records of
\* a match number are compared only with the official qualification ('qm') match
\* of that number, never with a playoff match of the same number, and the result
\* list holds at most one result for a match number.
C30_BatchAgreesWithSingle ==
    /\ \A r \in ClaimAllResults : r.matchKey = <<"qm", r.matchNumber>>
    /\ \A i, j \in 1..Len(validationResults) :
          validationResults[i].matchNumber = validationResults[j].matchNumber => i = j

-----------------------------------------------------------------------------
(* A replace, await by await, beside a validation run that reads the store *)

\* the validation engine at rest
EngineIdle ==
    /\ phase = "idle"
    /\ config = << >>
    /\ category = "none"
    /\ scoutedValue = 0
    /\ tbaValue = 0
    /\ discrepancy = << >>
    /\ scoutedRedEntries = << >>
    /\ scoutedBlueEntries = << >>
    /\ tbaMatch = << >>
    /\ result = << >>

\* the ways a stored record is replaced
ReplaceKinds == {"conflict", "auto", "correction"}

\* the ids the replace deletes before it saves the entry
idsToDeleteOf(kind, st, entry) ==
    CASE kind = "conflict" -> {{r.id} : r \in matchingRows(st, entry)}
      [] kind = "auto" -> IF existingForReplace(st, entry) = {} THEN {{}}
                          ELSE {{r.id} : r \in existingForReplace(st, entry)}
      [] kind = "correction" -> {{r.id : r \in existingEntries(st, entry.data)}}

\* db.scoutingData.where('eventName').equals(eventKey).and(matchNumber).toArray()
fetchScoutedMatchData(st, eventKey, matchNumber) ==
    {r \in st : r.eventName = eventKey /\ r.matchNumber = matchNumber}

InitReplace ==
    /\ EngineIdle
    /\ store \in Stores
    /\ incoming = << >>
    /\ conflictResult = NoConflictResult
    /\ showDialog = "none"
    /\ batchReviewEntries = << >>
    /\ pendingConflicts = << >>
    /\ currentConflicts = << >>
    /\ currentConflictIndex = 0
    /\ conflictResolutions = {}
    /\ resolutionHistory = << >>
    /\ pendingSubmission = << >>
    /\ submitsLeft = 0
    /\ lastOp = "none"
    /\ EventIdle
    /\ ReplaceIdle
    /\ CombinedIdle
    /\ DisplayIdle
    /\ ApplyIdle

\* a replace is decided: a conflict resolved with replace (applyConflictResolutions),
\* an auto-replace of the import, or a confirmed re-scout correction
BeginReplace(kind, entry) ==
    /\ replacePc = "idle"
    /\ matchingRows(store, entry) # {}
    /\ kind = "correction" => existingEntries(store, entry.data) # {}
    /\ \E ids \in idsToDeleteOf(kind, store, entry) :
          replaceJob' = <<[kind |-> kind, idsToDelete |-> ids,
                           entry |-> IF kind = "correction" THEN correctedEntry(entry)
                                     ELSE entry]>>
    /\ replacePc' = "delete"
    /\ UNCHANGED observed
    /\ UNCHANGED <<engineVars, importVars, eventVars, applyVars, displayVars, combinedVars>>

\* await db.scoutingData.delete(id) / bulkDelete(idsToDelete)
DeleteOld ==
    /\ replacePc = "delete"
    /\ store' = bulkDelete(store, replaceJob[1].idsToDelete)
    /\ replacePc' = "save"
    /\ UNCHANGED <<replaceJob, observed>>
    /\ UNCHANGED <<incoming, conflictResult, showDialog, batchReviewEntries,
                   pendingConflicts, currentConflicts, currentConflictIndex,
                   conflictResolutions, resolutionHistory, pendingSubmission,
                   submitsLeft, lastOp>>
    /\ UNCHANGED <<engineVars, eventVars, applyVars, displayVars, combinedVars>>

\* await saveScoutingEntry(entry), which stores the entry or throws
SaveNew(saved) ==
    /\ replacePc = "save"
    /\ store' = IF saved THEN saveScoutingEntry(store, replaceJob[1].entry) ELSE store
    /\ replacePc' = IF saved THEN "done" ELSE "failed"
    /\ UNCHANGED <<replaceJob, observed>>
    /\ UNCHANGED <<incoming, conflictResult, showDialog, batchReviewEntries,
                   pendingConflicts, currentConflicts, currentConflictIndex,
                   conflictResolutions, resolutionHistory, pendingSubmission,
                   submitsLeft, lastOp>>
    /\ UNCHANGED <<engineVars, eventVars, applyVars, displayVars, combinedVars>>

\* a validation run reads the scouted records of a match
ReadStore(matchNumber) ==
    /\ observed' = <<[matchNumber |-> matchNumber,
                      rows |-> fetchScoutedMatchData(store, ImportEvent, matchNumber)]>>
    /\ UNCHANGED <<replacePc, replaceJob>>
    /\ UNCHANGED <<engineVars, importVars, eventVars, applyVars, displayVars, combinedVars>>

NextReplace ==
    \/ \E kind \in ReplaceKinds, m \in ImportMatches :
          \E entry \in IncomingOf(m) : BeginReplace(kind, entry)
    \/ DeleteOld
    \/ \E saved \in BOOLEAN : SaveNew(saved)
    \/ \E m \in ImportMatches : ReadStore(m)

SpecReplace == InitReplace /\ [][NextReplace]_vars

\* C22: a replace (conflict-dialog replace, auto-replace or re-scout correction) is
\* atomic for a validation run that reads the store: whatever the interleaving,
\* and also when the save fails after the delete, what the run reads for the match
\* of the replaced record holds the old or the new record of the (event, match,
\* team) key.
C22_ReplaceAtomicForReaders ==
    (replaceJob # << >> /\ observed # << >>
        /\ observed[1].matchNumber = replaceJob[1].entry.data.matchNumber) =>
            \E r \in observed[1].rows : r.teamNumber = replaceJob[1].entry.data.selectTeam

-----------------------------------------------------------------------------
(* applyConflictResolutions on a list of conflicts and a map of decisions *)

\* a summary that counts as skipped only the conflicts decided with skip
applySummary_onlyDecided(conflicts, resolutions) ==
    [replaced |-> Len(SelectSeq(conflicts,
                      LAMBDA c : mapGet(resolutions, conflictKey(c)) = {"replace"})),
     skipped |-> Len(SelectSeq(conflicts,
                      LAMBDA c : mapGet(resolutions, conflictKey(c)) = {"skip"}))]

\* the counters of applyConflictResolutions: replaced++ or skipped++ in every turn
applySummary(conflicts, resolutions) ==
    [replaced |-> Len(SelectSeq(conflicts,
                      LAMBDA c : mapGet(resolutions, conflictKey(c)) = {"replace"})),
     skipped |-> Len(SelectSeq(conflicts,
                      LAMBDA c : mapGet(resolutions, conflictKey(c)) # {"replace"}))]

\* the conflicts that may be pending on a store: at most one for a stored record
ConflictsOn(st, m) ==
    {<< >>} \cup {<<[local |-> r, incoming |-> e]>> :
                     r \in {q \in st : q.matchNumber = m}, e \in IncomingOf(m)}

ConflictLists(st) ==
    {c1 \o c2 \o c3 : c1 \in ConflictsOn(st, "1"), c2 \in ConflictsOn(st, "2"),
                      c3 \in ConflictsOn(st, "3")}

\* the maps of decisions: replace, skip or no decision for a conflict
DecisionMaps(conflicts) ==
    LET keys == {conflictKey(conflicts[i]) : i \in 1..Len(conflicts)}
    IN  UNION {{ {<<k, f[k]>> : k \in decided} : f \in [decided -> {"replace", "skip"}]} :
               decided \in SUBSET keys}

InitApply ==
    /\ EngineIdle
    /\ store \in Stores
    /\ incoming = << >>
    /\ conflictResult = NoConflictResult
    /\ showDialog = "conflict"
    /\ batchReviewEntries = << >>
    /\ pendingConflicts = << >>
    /\ currentConflicts \in ConflictLists(store)
    /\ currentConflictIndex = 0
    /\ conflictResolutions \in DecisionMaps(currentConflicts)
    /\ resolutionHistory = << >>
    /\ pendingSubmission = << >>
    /\ submitsLeft = 0
    /\ lastOp = "none"
    /\ EventIdle
    /\ ReplaceIdle
    /\ CombinedIdle
    /\ DisplayIdle
    /\ ApplyIdle

\* applyConflictResolutions(conflicts, resolutions)
ApplyResolutions ==
    /\ applied = << >>
    /\ store' = applyConflictResolutions(store, currentConflicts, conflictResolutions)
    /\ applied' = <<applySummary(currentConflicts, conflictResolutions)>>
    /\ UNCHANGED <<incoming, conflictResult, showDialog, batchReviewEntries,
                   pendingConflicts, currentConflicts, currentConflictIndex,
                   conflictResolutions, resolutionHistory, pendingSubmission,
                   submitsLeft, lastOp>>
    /\ UNCHANGED <<engineVars, eventVars, replaceVars, displayVars, combinedVars>>

NextApply == ApplyResolutions

SpecApply == InitApply /\ [][NextApply]_vars

\* the conflicts of the list with the given decisions
ClaimDecided(decisions) ==
    {i \in 1..Len(currentConflicts) :
        mapGet(conflictResolutions, conflictKey(currentConflicts[i])) \in decisions}

\* C23: applying the recorded decisions handles every pending conflict once: the
\* summary counts the conflicts decided with replace as replaced and all others
\* as skipped, so replaced + skipped = number of pending conflicts; a conflict with
\* no recorded decision is counted as skipped and the records of its key are left
\* as they were.
C23_ApplySummary ==
    [][(applied = << >> /\ applied' # << >>) =>
        /\ applied'[1].replaced + applied'[1].skipped = Len(currentConflicts)
        /\ applied'[1].replaced = Cardinality(ClaimDecided({{"replace"}}))
        /\ applied'[1].skipped = Cardinality(ClaimDecided({{"skip"}, {}}))
        /\ \A i \in ClaimDecided({{}, {"skip"}}) :
              matchingRows(store', currentConflicts[i].incoming)
                  = matchingRows(store, currentConflicts[i].incoming)
       ]_vars

\* three conflicts applied: one replaced, one skipped, one without a decision
C23_Witness ==
    /\ applied # << >>
    /\ Len(currentConflicts) = 3
    /\ applied[1].replaced = 1
    /\ applied[1].skipped = 2
    /\ Cardinality(ClaimDecided({{}})) = 1
    /\ Cardinality(ClaimDecided({{"skip"}})) = 1

-----------------------------------------------------------------------------
(* Claims about the category toggles, checked under Spec *)

ClaimToggles == {"checkAutoScoring", "checkTeleopScoring", "checkEndgame"}

ClaimCategoryOf(toggle) ==
    CASE toggle = "checkAutoScoring" -> "auto-coral"
      [] toggle = "checkTeleopScoring" -> "teleop-coral"
      [] toggle = "checkEndgame" -> "endgame"

\* the pairs <<scouted value, official value>> the category of a toggle compares
ClaimPairsOf(toggle, scoutedData, tbaData) ==
    CASE toggle = "checkAutoScoring" ->
            << <<scoutedData.autoCoralL1, tbaData.autoCoralL1>>,
               <<scoutedData.autoCoralL2, tbaData.autoCoralL2>>,
               <<scoutedData.autoCoralL3, tbaData.autoCoralL3>>,
               <<scoutedData.autoCoralL4, tbaData.autoCoralL4>>,
               <<scoutedData.autoCoralTotal, tbaData.autoCoralTotal>> >>
      [] toggle = "checkTeleopScoring" ->
            << <<scoutedData.teleopCoralL1, tbaActualTeleop(tbaData).L1>>,
               <<scoutedData.teleopCoralL2, tbaActualTeleop(tbaData).L2>>,
               <<scoutedData.teleopCoralL3, tbaActualTeleop(tbaData).L3>>,
               <<scoutedData.teleopCoralL4, tbaActualTeleop(tbaData).L4>>,
               <<scoutedData.teleopCoralTotal, tbaActualTeleop(tbaData).Total>> >>
      [] toggle = "checkEndgame" ->
            << <<scoutedData.deepClimbs, tbaData.deepClimbs>>,
               <<scoutedData.shallowClimbs, tbaData.shallowClimbs>>,
               <<scoutedData.parks, tbaData.parks>> >>

\* the scouted aggregate with every value of the toggle's category set to the
\* official value it is compared with
ClaimMatched(toggle, scoutedData, tbaData) ==
    CASE toggle = "checkAutoScoring" ->
            [scoutedData EXCEPT !.autoCoralL1 = tbaData.autoCoralL1,
                                !.autoCoralL2 = tbaData.autoCoralL2,
                                !.autoCoralL3 = tbaData.autoCoralL3,
                                !.autoCoralL4 = tbaData.autoCoralL4,
                                !.autoCoralTotal = tbaData.autoCoralTotal]
      [] toggle = "checkTeleopScoring" ->
            [scoutedData EXCEPT !.teleopCoralL1 = tbaActualTeleop(tbaData).L1,
                                !.teleopCoralL2 = tbaActualTeleop(tbaData).L2,
                                !.teleopCoralL3 = tbaActualTeleop(tbaData).L3,
                                !.teleopCoralL4 = tbaActualTeleop(tbaData).L4,
                                !.teleopCoralTotal = tbaActualTeleop(tbaData).Total]
      [] toggle = "checkEndgame" ->
            [scoutedData EXCEPT !.deepClimbs = tbaData.deepClimbs,
                                !.shallowClimbs = tbaData.shallowClimbs,
                                !.parks = tbaData.parks]

\* the discrepancies the category of a toggle would report when compared
ClaimWouldReport(toggle, scoutedData, tbaData, cfg) ==
    {i \in 1..Len(ClaimPairsOf(toggle, scoutedData, tbaData)) :
        createDiscrepancy(ClaimCategoryOf(toggle), "field",
                          ClaimPairsOf(toggle, scoutedData, tbaData)[i][1],
                          ClaimPairsOf(toggle, scoutedData, tbaData)[i][2], cfg) # << >>}

ClaimReported(toggle, v) ==
    {i \in 1..Len(v.discrepancies) : v.discrepancies[i].category = ClaimCategoryOf(toggle)}

ClaimToggleRespected(toggle, v, cfg) ==
    IF cfg[toggle]
    THEN Cardinality(ClaimReported(toggle, v))
            = Cardinality(ClaimWouldReport(toggle, v.scoutedData, v.tbaData, cfg))
    ELSE /\ ClaimReported(toggle, v) = {}
         /\ LET w == compareAllianceData(ClaimMatched(toggle, v.scoutedData, v.tbaData),
                                         v.tbaData, [cfg EXCEPT ![toggle] = TRUE])
            IN  /\ v.status = w.status
                /\ v.confidence = w.confidence
                /\ v.discrepancies = w.discrepancies

\* C24: when checkAutoScoring, checkTeleopScoring or checkEndgame is off, the
\* alliance comparison reports no discrepancy of that category, and its status,
\* confidence and discrepancies are those of the comparison with the check on and
\* every value of the category equal to the official one; a category whose check
\* is on reports every one of its values that createDiscrepancy reports.
C24_CategoryToggles ==
    phase = "done" =>
        \A toggle \in ClaimToggles :
            /\ ClaimToggleRespected(toggle, result[1].redAlliance, config)
            /\ ClaimToggleRespected(toggle, result[1].blueAlliance, config)

\* an alliance whose endgame counts differ enough to be reported, validated with
\* checkEndgame off
C24_Witness ==
    /\ phase = "done"
    /\ ~config.checkEndgame
    /\ ClaimWouldReport("checkEndgame", result[1].redAlliance.scoutedData,
                        result[1].redAlliance.tbaData, config) # {}
    /\ ClaimReported("checkEndgame", result[1].redAlliance) = {}


-----------------------------------------------------------------------------
(* The endgame counts of the two aggregations, side by side *)

MaxClimbEntries == 3

EndgameChoices == {"none", "deep", "shallow", "park"}

\* a robot that scored nothing, chose one endgame and failed its climb or not
MkClimbPerformance(choice, failed) ==
    [autoCoral |-> <<0, 0, 0, 0>>, teleopCoral |-> <<0, 0, 0, 0>>,
     autoAlgaeNet |-> 0, autoAlgaeProcessor |-> 0,
     teleopAlgaeNet |-> 0, teleopAlgaeProcessor |-> 0,
     autoPassedStartLine |-> FALSE,
     deepClimbAttempted |-> choice = "deep",
     shallowClimbAttempted |-> choice = "shallow",
     parkAttempted |-> choice = "park",
     climbFailed |-> failed]

ClimbPerformances ==
    { MkClimbPerformance(choice, failed) : choice \in EndgameChoices, failed \in BOOLEAN }

ClimbEntryLists ==
    UNION { { [i \in 1..k |-> MkEntry(TeamAt(RedTeams, i), "scout", ps[i])] :
              ps \in [1..k -> ClimbPerformances] } : k \in 0..MaxClimbEntries }

InitEndgame ==
    /\ phase = "input"
    /\ config \in {MkConfig(MkThresholds(1, 2, 3), NoCategoryThresholds, AllChecks, 1, 3)}
    /\ category = "endgame"
    /\ scoutedValue = 0
    /\ tbaValue = 0
    /\ discrepancy = << >>
    /\ scoutedRedEntries \in ClimbEntryLists
    /\ scoutedBlueEntries = << >>
    /\ tbaMatch = EmptyMatch
    /\ result = << >>
    /\ ImportIdle
    /\ EventIdle
    /\ ReplaceIdle
    /\ CombinedIdle
    /\ DisplayIdle
    /\ ApplyIdle

\* the records of one alliance handed to calculateAllianceStats and to
\* aggregateScoutedAllianceData
CountEndgame ==
    /\ phase = "input"
    /\ result' = << [stats |-> calculateAllianceStats(scoutedRedEntries),
                     scoutedData |-> aggregateScoutedAllianceData(scoutedRedEntries, "red",
                                         "10", "2025test", RedTeams)] >>
    /\ phase' = "done"
    /\ UNCHANGED <<config, category, scoutedValue, tbaValue, discrepancy,
                   scoutedRedEntries, scoutedBlueEntries, tbaMatch>>
    /\ UNCHANGED <<importVars, eventVars, replaceVars, applyVars, displayVars, combinedVars>>

NextEndgame == CountEndgame

SpecEndgame == InitEndgame /\ [][NextEndgame]_vars

\* the number of records whose flag is set
ClaimAttempts(entries, flag) ==
    Cardinality({i \in 1..Len(entries) : entries[i][flag]})

\* C25: the scouted endgame counts are the numbers of records with
\* deepClimbAttempted, shallowClimbAttempted and parkAttempted set, whatever
\* climbFailed says, and calculateAllianceStats and aggregateScoutedAllianceData
\* give the same three values.
C25_EndgameCountsAttempts ==
    phase = "done" =>
        /\ result[1].scoutedData.deepClimbs = ClaimAttempts(scoutedRedEntries, "deepClimbAttempted")
        /\ result[1].scoutedData.shallowClimbs = ClaimAttempts(scoutedRedEntries, "shallowClimbAttempted")
        /\ result[1].scoutedData.parks = ClaimAttempts(scoutedRedEntries, "parkAttempted")
        /\ result[1].stats.deepClimbs = result[1].scoutedData.deepClimbs
        /\ result[1].stats.shallowClimbs = result[1].scoutedData.shallowClimbs
        /\ result[1].stats.parks = result[1].scoutedData.parks

\* what holds of the code: calculateAllianceStats counts the attempts, and so does
\* aggregateScoutedAllianceData for the parks
ClaimEndgameCountsInCode ==
    phase = "done" =>
        /\ result[1].stats.deepClimbs = ClaimAttempts(scoutedRedEntries, "deepClimbAttempted")
        /\ result[1].stats.shallowClimbs = ClaimAttempts(scoutedRedEntries, "shallowClimbAttempted")
        /\ result[1].stats.parks = ClaimAttempts(scoutedRedEntries, "parkAttempted")
        /\ result[1].scoutedData.parks = ClaimAttempts(scoutedRedEntries, "parkAttempted")


-----------------------------------------------------------------------------
(* filterAndSortResults: the validation results as the list page shows them *)

MaxResults == 3

\* statusOrder[status] || 99, the table being read as the comment above it orders it
statusRank_asCommented(status) ==
    CASE status = "failed" -> 0
      [] status = "flagged" -> 1
      [] status = "passed" -> 2
      [] status = "pending" -> 3
      [] status = "no-tba-data" -> 4
      [] OTHER -> 99

\* statusOrder[status] || 99: a rank of 0 is falsy and becomes 99
statusRank(status) ==
    LET statusOrder ==
            CASE status = "failed" -> 0
              [] status = "flagged" -> 1
              [] status = "passed" -> 2
              [] status = "pending" -> 3
              [] status = "no-tba-data" -> 4
              [] OTHER -> 0
    IN  IF statusOrder = 0 THEN 99 ELSE statusOrder

\* confidenceOrder[confidence] || 0
confidenceRank(confidence) ==
    CASE confidence = "high" -> 2
      [] confidence = "medium" -> 1
      [] OTHER -> 0

\* getMatchInfo: a match key is modelled by its parts <<level, set, match>>
getMatchInfo(matchKey) ==
    CASE matchKey[1] = "qm" -> [level |-> 1, matchNum |-> matchKey[3], setNum |-> 0]
      [] matchKey[1] = "sf" -> [level |-> 2, matchNum |-> matchKey[3], setNum |-> matchKey[2]]
      [] matchKey[1] = "f" -> [level |-> 3, matchNum |-> matchKey[3], setNum |-> matchKey[2]]
      [] OTHER -> [level |-> 0, matchNum |-> 0, setNum |-> 0]

\* the comparator handed to Array.prototype.sort
compareResults(a, b, filters) ==
    LET aInfo == getMatchInfo(a.matchKey)
        bInfo == getMatchInfo(b.matchKey)
        compareValue ==
            CASE filters.sortBy = "match" ->
                    IF aInfo.level # bInfo.level THEN aInfo.level - bInfo.level
                    ELSE IF aInfo.setNum # bInfo.setNum THEN aInfo.setNum - bInfo.setNum
                    ELSE aInfo.matchNum - bInfo.matchNum
              [] filters.sortBy = "status" -> statusRank(a.status) - statusRank(b.status)
              [] filters.sortBy = "discrepancies" -> a.totalDiscrepancies - b.totalDiscrepancies
              [] filters.sortBy = "confidence" ->
                    confidenceRank(a.confidence) - confidenceRank(b.confidence)
              [] OTHER -> 0
    IN  IF filters.sortOrder = "desc" THEN 0 - compareValue ELSE compareValue

\* x put behind the last element of the sorted list that does not come after it
RECURSIVE insertSorted(_, _, _)
insertSorted(sorted, x, filters) ==
    IF sorted = << >> THEN <<x>>
    ELSE IF compareResults(sorted[Len(sorted)], x, filters) <= 0 THEN Append(sorted, x)
    ELSE Append(insertSorted(SubSeq(sorted, 1, Len(sorted) - 1), x, filters),
                sorted[Len(sorted)])

\* Array.prototype.sort with the comparator: a stable sort
RECURSIVE sortResults(_, _)
sortResults(list, filters) ==
    IF list = << >> THEN << >>
    ELSE insertSorted(sortResults(SubSeq(list, 1, Len(list) - 1), filters),
                      list[Len(list)], filters)

keepResult(r, filters) ==
    /\ filters.status # "all" => r.status = filters.status
    /\ filters.matchType # "all" => r.matchKey[1] = filters.matchType

\* filterAndSortResults(results, filters) with an empty search query
filterAndSortResults(list, filters) ==
    sortResults(SelectSeq(list, LAMBDA r : keepResult(r, filters)), filters)

MkDisplayResult(status, level, number, total, confidence) ==
    [status |-> status, matchKey |-> <<level, 0, number>>,
     totalDiscrepancies |-> total, confidence |-> confidence]

DisplayResults ==
    { MkDisplayResult("failed", "qm", 1, 3, "low"),
      MkDisplayResult("flagged", "qm", 2, 1, "medium"),
      MkDisplayResult("passed", "qm", 3, 0, "high"),
      MkDisplayResult("pending", "sf", 1, 0, "low"),
      MkDisplayResult("no-tba-data", "qm", 4, 0, "low"),
      MkDisplayResult("failed", "sf", 2, 2, "high") }

DisplayLists ==
    UNION { [1..k -> DisplayResults] : k \in 0..MaxResults }

DisplayFilters ==
    [status : {"all", "failed"}, matchType : {"all", "qm"},
     sortBy : {"match", "status", "discrepancies", "confidence"},
     sortOrder : {"asc", "desc"}]

InitDisplay ==
    /\ EngineIdle
    /\ ImportIdle
    /\ EventIdle
    /\ ReplaceIdle
    /\ CombinedIdle
    /\ ApplyIdle
    /\ displayResults \in DisplayLists
    /\ displayFilters \in { <<f>> : f \in DisplayFilters }
    /\ displayed = << >>

FilterAndSort ==
    /\ displayed = << >>
    /\ displayed' = << filterAndSortResults(displayResults, displayFilters[1]) >>
    /\ UNCHANGED <<displayResults, displayFilters>>
    /\ UNCHANGED <<engineVars, importVars, eventVars, replaceVars, applyVars, combinedVars>>

NextDisplay == FilterAndSort

SpecDisplay == InitDisplay /\ [][NextDisplay]_vars

\* the place of a status in the order failed, flagged, passed, pending, no-tba-data
ClaimSeverityPlace(status) ==
    CASE status = "failed" -> 0
      [] status = "flagged" -> 1
      [] status = "passed" -> 2
      [] status = "pending" -> 3
      [] status = "no-tba-data" -> 4

\* C27: sorted by status, the list is ordered failed, flagged, passed, pending,
\* no-tba-data when ascending and in the exact reverse when descending.
C27_StatusOrder ==
    (displayed # << >> /\ displayFilters[1].sortBy = "status") =>
        \A i, j \in 1..Len(displayed[1]) :
            i < j =>
                IF displayFilters[1].sortOrder = "asc"
                THEN ClaimSeverityPlace(displayed[1][i].status)
                        <= ClaimSeverityPlace(displayed[1][j].status)
                ELSE ClaimSeverityPlace(displayed[1][i].status)
                        >= ClaimSeverityPlace(displayed[1][j].status)


-----------------------------------------------------------------------------
(* Claims about the per-team entries of validateMatch, checked under Spec *)

\* the roster of alliance a in the order of the official payload
ClaimRosterOf(a) == ClaimValidation(a).tbaData.teams

ClaimTeamEntries(a, teamNum) ==
    {i \in 1..Len(Res.teams) :
        Res.teams[i].teamNumber = teamNum /\ Res.teams[i].alliance = a}

\* C28: the result holds exactly one entry per roster team; a team without a
\* scouted record has hasScoutedData false, confidence 'low', the note 'No scouted
\* data for this team' and flagForReview set; flagForReview is also set for every
\* team whose alliance is flagged or failed.
C28_TeamEntries ==
    phase = "done" =>
        /\ Len(result[1].teams) = Len(ClaimRosterOf("red")) + Len(ClaimRosterOf("blue"))
        /\ \A a \in {"red", "blue"} :
             \A k \in 1..Len(ClaimRosterOf(a)) :
                LET teamNum == ClaimRosterOf(a)[k]
                    status == ClaimValidation(a).status
                IN  /\ Cardinality(ClaimTeamEntries(a, teamNum)) = 1
                    /\ \A i \in ClaimTeamEntries(a, teamNum) :
                          LET t == result[1].teams[i]
                          IN  /\ t.hasScoutedData <=> ClaimHasRecord(a, teamNum)
                              /\ ~ClaimHasRecord(a, teamNum) =>
                                    /\ t.confidence = "low"
                                    /\ t.notes = <<"No scouted data for this team">>
                                    /\ t.flagForReview
                              /\ status \in {"flagged", "failed"} => t.flagForReview

-----------------------------------------------------------------------------
(* Claims about the re-scout correction, checked under SpecImport *)

ClaimCorrectionStep(op) == showDialog = "correction" /\ lastOp' = op

\* the rows of st with the event, match, team and alliance of the pending submission
ClaimPendingKeyRows(st) == existingEntries(st, pendingSubmission[1].entryWithId.data)

\* C29: a confirmed correction leaves exactly one record for the (event, match,
\* team, alliance) key of the submission; it has isCorrected = true and a
\* correctionCount one greater than that of the record it replaced (1 when that
\* record was not corrected). A cancelled correction leaves the store unchanged.
C29_CorrectionReplaces ==
    [][/\ ClaimCorrectionStep("confirm-correction") =>
            /\ Cardinality(ClaimPendingKeyRows(store')) = 1
            /\ \A r \in ClaimPendingKeyRows(store') :
                  /\ r.isCorrected
                  /\ \A old \in ClaimPendingKeyRows(store) :
                        r.correctionCount = old.correctionCount + 1
       /\ ClaimCorrectionStep("cancel-correction") => store' = store
      ]_vars

\* what holds of the code: the one record of the key is corrected and counts one
\* correction whatever it replaced; a cancelled correction leaves the store unchanged
ClaimCorrectionInCode ==
    [][/\ ClaimCorrectionStep("confirm-correction") =>
            /\ Cardinality(ClaimPendingKeyRows(store')) = 1
            /\ \A r \in ClaimPendingKeyRows(store') :
                  r.isCorrected /\ r.correctionCount = 1
       /\ ClaimCorrectionStep("cancel-correction") => store' = store
      ]_vars

-----------------------------------------------------------------------------
(* saveCombinedData of the combined-data scanner: scouting entries and scout   *)
(* profiles imported from one payload                                          *)

\* mergeScoutingData(existing, incoming, 'smart-merge') followed by saveScoutingData:
\* the entries whose id is not stored yet are added, the others are skipped
RECURSIVE mergeScoutingData(_, _)
mergeScoutingData(st, entries) ==
    IF entries = << >> THEN st
    ELSE mergeScoutingData(saveScoutingEntry_noOverwrite(st, Head(entries)), Tail(entries))

ScoutNameSets == {{}, {"B"}}

InitCombined ==
    /\ EngineIdle
    /\ store \in Stores
    /\ incoming \in Batches
    /\ conflictResult = NoConflictResult
    /\ showDialog = "none"
    /\ batchReviewEntries = << >>
    /\ pendingConflicts = << >>
    /\ currentConflicts = << >>
    /\ currentConflictIndex = 0
    /\ conflictResolutions = {}
    /\ resolutionHistory = << >>
    /\ pendingSubmission = << >>
    /\ submitsLeft = 0
    /\ lastOp = "none"
    /\ EventIdle
    /\ ReplaceIdle
    /\ ApplyIdle
    /\ DisplayIdle
    /\ scoutsToImport \in ScoutNameSets
    /\ scoutsList \in ScoutNameSets
    /\ pendingImportData = << >>
    /\ combinedPc = "scanned"

\* saveCombinedData: the scouting entries go through detectConflicts, the scout
\* profiles through performScoutImport or the add-to-list question
SaveCombinedData ==
    /\ combinedPc = "scanned"
    /\ \E existingOf \in ExistingChoices(store, incoming), bucketOf \in BucketChoices(incoming) :
        LET cr == IF incoming = << >> THEN NoConflictResult
                  ELSE detectConflicts(incoming, existingOf, bucketOf)
            newScoutNames == scoutsToImport \ scoutsList
        IN  /\ conflictResult' = cr
            /\ store' \in autoReplaceAll({saveAll(store, cr.autoImport)}, cr.autoReplace)
            /\ IF cr.conflicts # << >>
               THEN /\ currentConflicts' = cr.conflicts
                    /\ currentConflictIndex' = 0
                    /\ conflictResolutions' = {}
               ELSE UNCHANGED <<currentConflicts, currentConflictIndex, conflictResolutions>>
            /\ IF newScoutNames # {}
               THEN /\ pendingImportData' = <<[scoutingData |-> incoming]>>
                    /\ showDialog' = "scout-add"
                    /\ combinedPc' = "asking"
               ELSE /\ showDialog' = IF cr.conflicts # << >> THEN "conflict" ELSE "none"
                    /\ combinedPc' = "done"
                    /\ UNCHANGED pendingImportData
    /\ incoming' = << >>
    /\ lastOp' = "combined"
    /\ UNCHANGED <<batchReviewEntries, pendingConflicts, resolutionHistory,
                   pendingSubmission, submitsLeft, scoutsToImport, scoutsList>>
    /\ UNCHANGED <<engineVars, eventVars, replaceVars, applyVars, displayVars>>

\* handleAddScoutsToSelectable (true) and handleImportWithoutAdding (false):
\* performCombinedImport on the pending payload
DecideScoutAdd(addToSelectableList) ==
    /\ showDialog = "scout-add"
    /\ pendingImportData # << >>
    /\ store' = mergeScoutingData(store, pendingImportData[1].scoutingData)
    /\ scoutsList' = IF addToSelectableList THEN scoutsList \cup scoutsToImport ELSE scoutsList
    /\ showDialog' = "none"
    /\ pendingImportData' = << >>
    /\ combinedPc' = "done"
    /\ lastOp' = IF addToSelectableList THEN "add-scouts" ELSE "import-without-adding"
    /\ UNCHANGED <<incoming, conflictResult, batchReviewEntries, pendingConflicts,
                   currentConflicts, currentConflictIndex, conflictResolutions,
                   resolutionHistory, pendingSubmission, submitsLeft, scoutsToImport>>
    /\ UNCHANGED <<engineVars, eventVars, replaceVars, applyVars, displayVars>>

NextCombined ==
    \/ SaveCombinedData
    \/ \E addToSelectableList \in BOOLEAN : DecideScoutAdd(addToSelectableList)

SpecCombined == InitCombined /\ [][NextCombined]_vars

\* the scanner finishes saveCombinedData and the user answers the add-to-list
\* question
SpecCombinedLive == InitCombined /\ [][NextCombined]_vars /\ WF_vars(NextCombined)

\* the batch-review records of the last detection that are not in the store
ClaimUnwritten ==
    {i \in 1..Len(conflictResult.batchReview) :
        entryRow(conflictResult.batchReview[i]) \notin store}

\* C26: whenever the combined import detects a conflict that needs review, the
\* conflict dialog is eventually shown, also when the add-to-list question for new
\* scout names comes first; and when the import is over, every batch-review record
\* it detected has been written or is presented in a dialog.
C26_ConflictsPresented ==
    /\ (conflictResult.conflicts # << >>) ~> (showDialog = "conflict")
    /\ [](combinedPc = "done" => (ClaimUnwritten = {} \/ showDialog = "batch"))

\* what holds of the code: without new scout names the import ends with the
\* conflict dialog open whenever it detected a conflict
ClaimDialogWithoutNewScouts ==
    (combinedPc = "done" /\ lastOp = "combined" /\ conflictResult.conflicts # << >>)
        => showDialog = "conflict"

====
